---------------------------- MODULE Spec2Model ----------------------------
(***************************************************************************)
(* Model of the four associative containers of the lexicon repository:     *)
(* the AVL tree, the Red-Black tree, the chained hash table and the        *)
(* open-addressing hash table.  The containers share no state; each one    *)
(* has its own variables, its own actions and its own specification.       *)
(***************************************************************************)
EXTENDS Integers, Sequences, FiniteSets, TLC

VARIABLES
    avl_root,   \* AVLTree::_root, the tree as a nested record (NULL = nullptr)
    avl_size,   \* AVLTree::_size
    avl_it,     \* an AVLTreeIterator over the tree and the pairs it has yielded
    avl_last,   \* the last AVL call: its name and whether its key was stored
    avl_order,  \* the keys the AVL scenario has inserted, in call order
    avl_erase,  \* the last erase: the nodes rotated and whether a successor was copied
    rb,         \* the RBTree object: _root, the heap of nodes with _NIL, m_size
    rb_it,      \* an RBTreeIterator over the tree and the pairs it has yielded
    rb_last,    \* the last Red-Black call
    rb_copied,  \* whether the last remove copied a successor into the node of its key
    rt_phase,   \* round trip: "insert" while keys go in, "remove" afterwards
    rt_inserted,\* round trip: the keys inserted
    rt_removed, \* round trip: the keys removed
    htc,        \* the HashTable_Chaining object
    htc_last,   \* the last call of the chained table
    htc_rehashes, \* the calls of rehash of the chained table so far
    hto,        \* the HashTable_OpenAddressing object
    hto_last,   \* the last call of the open-addressing table
    dict_count, \* Dictionary: the calls of insert made so far, word by word
    htc_it,     \* a HashTable_Chaining::Iterator and the pairs it has yielded
    hto_it      \* a HashTable_OpenAddressing::Iterator and the entries it has yielded

avl_vars == <<avl_root, avl_size, avl_it, avl_last>>

rb_vars == <<rb, rb_it, rb_last>>

scenario_vars == <<avl_order, avl_erase, rb_copied>>

rt_vars == <<rt_phase, rt_inserted, rt_removed>>

htc_vars == <<htc, htc_last, htc_rehashes>>

hto_vars == <<hto, hto_last>>

dict_vars == <<dict_count>>

it_vars == <<htc_it, hto_it>>

vars == <<avl_vars, scenario_vars, rb_vars, rt_vars, htc_vars, hto_vars, dict_vars, it_vars>>

\* What the actions of one container leave alone.
not_avl == <<scenario_vars, rb_vars, rt_vars, htc_vars, hto_vars, dict_vars, it_vars>>

not_rb == <<avl_vars, scenario_vars, rt_vars, htc_vars, hto_vars, dict_vars, it_vars>>

not_htc == <<avl_vars, scenario_vars, rb_vars, rt_vars, hto_vars, dict_vars, it_vars>>

not_hto == <<avl_vars, scenario_vars, rb_vars, rt_vars, htc_vars, dict_vars, it_vars>>

(***************************************************************************)
(* Bounds of the model.                                                    *)
(***************************************************************************)
AVLMaxKey == 6

AVLKeys == 1..AVLMaxKey

RBMaxKey == 6

RBKeys == 1..RBMaxKey

RTMaxKey == 5

RTKeys == 1..RTMaxKey

HTCMaxKey == 5

HTCKeys == 1..HTCMaxKey

\* The largest tableSize a chained table is constructed with.
HTCMaxRequest == 4

\* The scenario of the default table adds the unique keys 1 .. HTCScenarioMaxKey.
HTCScenarioMaxKey == 16

HTCScenarioKeys == 1..HTCScenarioMaxKey

HTOMaxKey == 2

\* The largest tableSize an open-addressing table is constructed with.
HTOMaxRequest == 2

\* The largest key passed to an open-addressing table whose load factor is set.
HTOLoadMaxKey == 4

\* The AVLTree.h iterator walks trees of the keys 1 .. AVLTreeMaxKey, with at
\* most AVLTreeMaxStack nodes on its stack before a step.
AVLTreeMaxKey == 4

AVLTreeMaxStack == 3

\* The keys of the AVL tree whose erase is followed rotation by rotation.
AVLEraseMaxKey == 7

\* The keys of the AVL tree that is compared with a map.
AVLMapMaxKey == 5

\* The keys of the Red-Black tree that is compared with a map.
RBMapMaxKey == 5

\* Where the rotations of an insert are counted the keys 1 .. RotMaxKey are
\* inserted into and removed from one of the two trees.
RotMaxKey == 6

\* With the lookups the keys 1 .. LookupMaxKey are passed, with one value.
LookupMaxKey == 4

\* clear() is called on Red-Black trees whose size() is at most this.
RBClearMaxSize == 3

\* Dictionary: the number of distinct words, the number of them that occur
\* more than once, and the most calls of insert with one word.
DictMaxWords == 16

DictMaxRepeated == 5

DictMaxCount == 2

\* add is called on an open-addressing table of at most this many slots.
HTOMaxTable == 5

\* With reserve the keys 1 .. HTOReserveMaxKey are added and reserve(n) is
\* called with n in 0 .. HTOReserveMaxRequest.
HTOReserveMaxKey == 4

HTOReserveMaxRequest == 4

\* Two values are enough to tell a kept value from an overwritten one; the
\* containers copy values and never inspect them.
Values == {1, 2}

Max(a, b) == IF a > b THEN a ELSE b

AbsDiff(a, b) == IF a > b THEN a - b ELSE b - a

(***************************************************************************)
(* AVL tree                                                                *)
(***************************************************************************)
NULL == [null |-> TRUE]

\* A node constructed with height 0, the height of an absent child.
AVLNode_height0(key, value) ==
    [key |-> key, value |-> value, left |-> NULL, right |-> NULL, height |-> 0]

AVLNode(key, value) ==
    [key |-> key, value |-> value, left |-> NULL, right |-> NULL, height |-> 1]

AVL_height(node) == IF node = NULL THEN 0 ELSE node.height

AVL_balance(node) == AVL_height(node.right) - AVL_height(node.left)

AVL_rotateLeft(p) ==
    LET q  == p.right
        p1 == [p EXCEPT !.right = q.left]
        p2 == [p1 EXCEPT !.height = 1 + Max(AVL_height(p1.left), AVL_height(p1.right))]
        q1 == [q EXCEPT !.left = p2]
    IN  [q1 EXCEPT !.height = 1 + Max(AVL_height(q1.left), AVL_height(q1.right))]

AVL_rotateRight(p) ==
    LET q  == p.left
        p1 == [p EXCEPT !.left = q.right]
        p2 == [p1 EXCEPT !.height = 1 + Max(AVL_height(p1.left), AVL_height(p1.right))]
        q1 == [q EXCEPT !.right = p2]
    IN  [q1 EXCEPT !.height = 1 + Max(AVL_height(q1.left), AVL_height(q1.right))]

\* A mutant of AVL_fixup_node: the single rotations only, no double rotation.
AVL_fixup_node_single(node0, key) ==
    LET node == [node0 EXCEPT !.height =
                    1 + Max(AVL_height(node0.left), AVL_height(node0.right))]
        bal  == AVL_balance(node)
    IN  IF bal < -1 THEN AVL_rotateRight(node)
        ELSE IF bal > 1 THEN AVL_rotateLeft(node)
        ELSE node

\* _fixup_node(node, key): node with its height recomputed, rotated where unbalanced.
AVL_fixup_node(node0, key) ==
    LET node == [node0 EXCEPT !.height =
                    1 + Max(AVL_height(node0.left), AVL_height(node0.right))]
        bal  == AVL_balance(node)
    IN  IF bal < -1 /\ key < node.left.key
            THEN AVL_rotateRight(node)
        ELSE IF bal < -1 /\ node.left.key < key
            THEN AVL_rotateRight([node EXCEPT !.left = AVL_rotateLeft(node.left)])
        ELSE IF bal > 1 /\ node.right.key < key
            THEN AVL_rotateLeft(node)
        ELSE IF bal > 1 /\ key < node.right.key
            THEN AVL_rotateLeft([node EXCEPT !.right = AVL_rotateRight(node.right)])
        ELSE node

\* A mutant of AVL_insert: a duplicate key overwrites the stored value.
RECURSIVE AVL_insert_overwrite(_, _, _)
AVL_insert_overwrite(node, key, value) ==
    IF node = NULL THEN AVLNode(key, value)
    ELSE IF key = node.key THEN [node EXCEPT !.value = value]
    ELSE IF key < node.key
        THEN AVL_fixup_node([node EXCEPT !.left =
                                AVL_insert_overwrite(node.left, key, value)], key)
    ELSE AVL_fixup_node([node EXCEPT !.right =
                            AVL_insert_overwrite(node.right, key, value)], key)

RECURSIVE AVL_insert(_, _, _)
AVL_insert(node, key, value) ==
    IF node = NULL THEN AVLNode(key, value)
    ELSE IF key = node.key THEN node
    ELSE IF key < node.key
        THEN AVL_fixup_node([node EXCEPT !.left = AVL_insert(node.left, key, value)], key)
    ELSE AVL_fixup_node([node EXCEPT !.right = AVL_insert(node.right, key, value)], key)

\* A mutant of AVL_fixup_node_rotations: _fixup_node counts each rotation it
\* asks for and the rotation counts itself.
AVL_fixup_node_rotations_twice(node0, key) ==
    LET node == [node0 EXCEPT !.height =
                    1 + Max(AVL_height(node0.left), AVL_height(node0.right))]
        bal  == AVL_balance(node)
    IN  IF bal < -1 /\ key < node.left.key THEN 2
        ELSE IF bal < -1 /\ node.left.key < key THEN 4
        ELSE IF bal > 1 /\ node.right.key < key THEN 2
        ELSE IF bal > 1 /\ key < node.right.key THEN 4
        ELSE 0

\* The number of times _fixup_node(node, key) runs ++_n_rotations: once in
\* each _rotateLeft and _rotateRight it calls.
AVL_fixup_node_rotations(node0, key) ==
    LET node == [node0 EXCEPT !.height =
                    1 + Max(AVL_height(node0.left), AVL_height(node0.right))]
        bal  == AVL_balance(node)
    IN  IF bal < -1 /\ key < node.left.key THEN 1
        ELSE IF bal < -1 /\ node.left.key < key THEN 2
        ELSE IF bal > 1 /\ node.right.key < key THEN 1
        ELSE IF bal > 1 /\ key < node.right.key THEN 2
        ELSE 0

\* The increase of _n_rotations made by _insert(node, key, value).
RECURSIVE AVL_insert_rotations(_, _, _)
AVL_insert_rotations(node, key, value) ==
    IF node = NULL THEN 0
    ELSE IF key = node.key THEN 0
    ELSE IF key < node.key
        THEN AVL_insert_rotations(node.left, key, value)
             + AVL_fixup_node_rotations(
                    [node EXCEPT !.left = AVL_insert(node.left, key, value)], key)
    ELSE AVL_insert_rotations(node.right, key, value)
         + AVL_fixup_node_rotations(
                [node EXCEPT !.right = AVL_insert(node.right, key, value)], key)

\* The change of _size made by _insert: ++_size where the descent ends on nullptr.
RECURSIVE AVL_insert_size(_, _)
AVL_insert_size(node, key) ==
    IF node = NULL THEN 1
    ELSE IF key = node.key THEN 0
    ELSE IF key < node.key THEN AVL_insert_size(node.left, key)
    ELSE AVL_insert_size(node.right, key)

\* A mutant of AVL_fixup_deletion: the height is recomputed, nothing is rotated.
AVL_fixup_deletion_norotate(node0) ==
    IF node0 = NULL THEN NULL
    ELSE [node0 EXCEPT !.height =
            1 + Max(AVL_height(node0.left), AVL_height(node0.right))]

\* _fixup_deletion(node): node with its height recomputed, rotated where unbalanced.
AVL_fixup_deletion(node0) ==
    IF node0 = NULL THEN NULL
    ELSE
    LET node == [node0 EXCEPT !.height =
                    1 + Max(AVL_height(node0.left), AVL_height(node0.right))]
        bal  == AVL_balance(node)
    IN  IF bal < -1
            THEN IF AVL_balance(node.left) <= 0
                    THEN AVL_rotateRight(node)
                    ELSE AVL_rotateRight([node EXCEPT !.left = AVL_rotateLeft(node.left)])
        ELSE IF bal > 1
            THEN IF AVL_balance(node.right) >= 0
                    THEN AVL_rotateLeft(node)
                    ELSE AVL_rotateLeft([node EXCEPT !.right = AVL_rotateRight(node.right)])
        ELSE node

\* _remove_successor(node, successor): the new subtree in place of successor
\* and the key and value the call copies into node.
RECURSIVE AVL_remove_successor(_)
AVL_remove_successor(successor) ==
    IF successor.left # NULL
        THEN LET r == AVL_remove_successor(successor.left)
             IN  [r EXCEPT !.tree = AVL_fixup_deletion([successor EXCEPT !.left = r.tree])]
        ELSE [tree |-> successor.right, key |-> successor.key, value |-> successor.value]

\* A mutant of AVL_remove: the key of the successor is copied into the node,
\* its value is not.
RECURSIVE AVL_remove_keyonly(_, _)
AVL_remove_keyonly(node, key) ==
    IF node = NULL THEN NULL
    ELSE IF key < node.key
        THEN AVL_fixup_deletion([node EXCEPT !.left = AVL_remove_keyonly(node.left, key)])
    ELSE IF node.key < key
        THEN AVL_fixup_deletion([node EXCEPT !.right = AVL_remove_keyonly(node.right, key)])
    ELSE IF node.right = NULL
        THEN node.left
    ELSE LET r == AVL_remove_successor(node.right)
         IN  AVL_fixup_deletion([node EXCEPT !.key = r.key, !.right = r.tree])

\* _remove(node, key): the subtree without key.
RECURSIVE AVL_remove(_, _)
AVL_remove(node, key) ==
    IF node = NULL THEN NULL
    ELSE IF key < node.key
        THEN AVL_fixup_deletion([node EXCEPT !.left = AVL_remove(node.left, key)])
    ELSE IF node.key < key
        THEN AVL_fixup_deletion([node EXCEPT !.right = AVL_remove(node.right, key)])
    ELSE IF node.right = NULL
        THEN node.left
    ELSE LET r == AVL_remove_successor(node.right)
         IN  AVL_fixup_deletion([node EXCEPT !.key = r.key, !.value = r.value,
                                             !.right = r.tree])

\* Whether _fixup_deletion(node0) rotates: the test it makes after it has
\* recomputed the height.
AVL_fixup_deletion_rotates(node0) ==
    /\ node0 # NULL
    /\ AbsDiff(AVL_height(node0.left), AVL_height(node0.right)) > 1

\* The number of nodes that the calls of _fixup_deletion made by
\* _remove_successor(node, successor) rotate.
RECURSIVE AVL_remove_successor_rotations(_)
AVL_remove_successor_rotations(successor) ==
    IF successor.left # NULL
        THEN AVL_remove_successor_rotations(successor.left)
             + (IF AVL_fixup_deletion_rotates(
                        [successor EXCEPT !.left = AVL_remove_successor(successor.left).tree])
                    THEN 1 ELSE 0)
        ELSE 0

\* The same count for _remove(node, key), the successor path included.
RECURSIVE AVL_remove_rotations(_, _)
AVL_remove_rotations(node, key) ==
    IF node = NULL THEN 0
    ELSE IF key < node.key
        THEN AVL_remove_rotations(node.left, key)
             + (IF AVL_fixup_deletion_rotates(
                        [node EXCEPT !.left = AVL_remove(node.left, key)])
                    THEN 1 ELSE 0)
    ELSE IF node.key < key
        THEN AVL_remove_rotations(node.right, key)
             + (IF AVL_fixup_deletion_rotates(
                        [node EXCEPT !.right = AVL_remove(node.right, key)])
                    THEN 1 ELSE 0)
    ELSE IF node.right = NULL THEN 0
    ELSE AVL_remove_successor_rotations(node.right)
         + (IF AVL_fixup_deletion_rotates(
                    [node EXCEPT !.right = AVL_remove_successor(node.right).tree])
                THEN 1 ELSE 0)

\* The change of _size made by _remove: --_size where the key is found.
RECURSIVE AVL_remove_size(_, _)
AVL_remove_size(node, key) ==
    IF node = NULL THEN 0
    ELSE IF key < node.key THEN AVL_remove_size(node.left, key)
    ELSE IF node.key < key THEN AVL_remove_size(node.right, key)
    ELSE 1

RECURSIVE AVL_findNode(_, _)
AVL_findNode(cur, k) ==
    IF cur # NULL /\ cur.key # k
        THEN IF cur.key < k THEN AVL_findNode(cur.right, k)
                            ELSE AVL_findNode(cur.left, k)
        ELSE cur

AVL_contains(k) == AVL_findNode(avl_root, k) # NULL

\* A mutant of AVL_findNode_comparisons: the loop runs _n_comparisons -= 3.
RECURSIVE AVL_findNode_comparisons_down(_, _)
AVL_findNode_comparisons_down(cur, k) ==
    IF cur # NULL /\ cur.key # k
        THEN AVL_findNode_comparisons_down(IF cur.key < k THEN cur.right ELSE cur.left, k) - 3
        ELSE 0

\* The increase of _n_comparisons made by _findNode(k) from cur on.
RECURSIVE AVL_findNode_comparisons(_, _)
AVL_findNode_comparisons(cur, k) ==
    IF cur # NULL /\ cur.key # k
        THEN AVL_findNode_comparisons(IF cur.key < k THEN cur.right ELSE cur.left, k) + 3
        ELSE 0

\* The increase of _n_comparisons made by at(k).
AVL_at_comparisons(node, k) ==
    AVL_findNode_comparisons(node, k) + (IF AVL_findNode(node, k) = NULL THEN 1 ELSE 0)

\* at(k) on the tree of root node: the value, or the exception thrown.
AVL_at(node, k) ==
    IF AVL_findNode(node, k) = NULL
        THEN [ret |-> "AVL_ValueNotFoundException", value |-> 0]
        ELSE [ret |-> "ok", value |-> AVL_findNode(node, k).value]

\* Whether _remove(node, key) reaches _remove_successor, which copies the key
\* and the value of the successor into the node of key.
AVL_remove_copies(node, key) ==
    /\ AVL_findNode(node, key) # NULL
    /\ AVL_findNode(node, key).right # NULL

\* The last erase when there has been none, or an insert since.
AVLEraseNone == [all |-> 0, successor |-> 0, copied |-> FALSE]

(***************************************************************************)
(* AVLTreeIterator: current and the traversal stack (top = last element).  *)
(***************************************************************************)
RECURSIVE AVLIt_push_left(_, _)
AVLIt_push_left(stack, node) ==
    IF node # NULL THEN AVLIt_push_left(Append(stack, node), node.left)
    ELSE stack

AVLIt_pop(stack) ==
    IF stack # <<>>
        THEN [current |-> stack[Len(stack)], stack |-> SubSeq(stack, 1, Len(stack) - 1)]
        ELSE [current |-> NULL, stack |-> stack]

AVLIt_begin(root) == AVLIt_pop(AVLIt_push_left(<<>>, root))

\* A mutant of AVLIt_next: the right subtree of the current node is skipped.
AVLIt_next_skip(it) == AVLIt_pop(it.stack)

AVLIt_next(it) ==
    AVLIt_pop(IF it.current.right # NULL
                THEN AVLIt_push_left(it.stack, it.current.right)
                ELSE it.stack)

\* AVLTreeIterator(root, cur): the nodes from the root down to cur are pushed,
\* cur included, and current is cur; nullptr where cur is not met.
RECURSIVE AVLIt_find_path(_, _, _)
AVLIt_find_path(stack, node, cur) ==
    IF node = NULL THEN [current |-> NULL, stack |-> stack]
    ELSE IF node = cur THEN [current |-> node, stack |-> Append(stack, node)]
    ELSE IF node.key > cur.key THEN AVLIt_find_path(Append(stack, node), node.left, cur)
    ELSE AVLIt_find_path(Append(stack, node), node.right, cur)

AVLItIdle == [active |-> FALSE, current |-> NULL, stack |-> <<>>, out |-> <<>>]

(***************************************************************************)
(* Ground truth about a tree, read off the links alone.                    *)
(***************************************************************************)
RECURSIVE AVLPairs(_)
AVLPairs(node) ==
    IF node = NULL THEN <<>>
    ELSE AVLPairs(node.left) \o <<(<<node.key, node.value>>)>> \o AVLPairs(node.right)

RECURSIVE AVLNodes(_)
AVLNodes(node) ==
    IF node = NULL THEN {}
    ELSE {node} \cup AVLNodes(node.left) \cup AVLNodes(node.right)

AVLKeySet(node) == {n.key : n \in AVLNodes(node)}

\* The structural height of a subtree, counted on the links.
RECURSIVE AVLTrueHeight(_)
AVLTrueHeight(node) ==
    IF node = NULL THEN 0
    ELSE 1 + Max(AVLTrueHeight(node.left), AVLTrueHeight(node.right))

(***************************************************************************)
(* AVL actions                                                             *)
(***************************************************************************)
\* The record of a call: its name, its arguments (0 = none) and whether the
\* key was stored in the tree when the call was made.
AVLCall(op, k, v, hit) == [op |-> op, key |-> k, value |-> v, hit |-> hit]

AVLInit ==
    /\ avl_root = NULL
    /\ avl_size = 0
    /\ avl_it = AVLItIdle
    /\ avl_last = AVLCall("init", 0, 0, FALSE)
    /\ avl_order = <<>>
    /\ avl_erase = AVLEraseNone

AVLInsert(k, v) ==
    /\ avl_root' = AVL_insert(avl_root, k, v)
    /\ avl_size' = avl_size + AVL_insert_size(avl_root, k)
    /\ avl_it' = AVLItIdle
    /\ avl_last' = AVLCall("insert", k, v, k \in AVLKeySet(avl_root))

AVLErase(k) ==
    /\ avl_root' = AVL_remove(avl_root, k)
    /\ avl_size' = avl_size - AVL_remove_size(avl_root, k)
    /\ avl_it' = AVLItIdle
    /\ avl_last' = AVLCall("erase", k, 0, k \in AVLKeySet(avl_root))

\* contains(k) and at(k): const member functions, nothing but the mutable
\* _n_comparisons is written.
AVLContains(k) ==
    /\ avl_last' = AVLCall("contains", k, 0, k \in AVLKeySet(avl_root))
    /\ UNCHANGED <<avl_root, avl_size, avl_it>>

AVLAt(k) ==
    /\ avl_last' = AVLCall("at", k, AVL_at(avl_root, k).value, k \in AVLKeySet(avl_root))
    /\ UNCHANGED <<avl_root, avl_size, avl_it>>

\* it = find(k): AVL_ValueNotFoundException where the key is not stored.
AVLFind(k) ==
    /\ avl_it' = IF AVL_findNode(avl_root, k) = NULL THEN AVLItIdle
                 ELSE [active |-> TRUE, out |-> <<>>]
                      @@ AVLIt_find_path(<<>>, avl_root, AVL_findNode(avl_root, k))
    /\ avl_last' = AVLCall("find", k, 0, k \in AVLKeySet(avl_root))
    /\ UNCHANGED <<avl_root, avl_size>>

AVLBegin ==
    /\ avl_it' = [active |-> TRUE, out |-> <<>>] @@ AVLIt_begin(avl_root)
    /\ avl_last' = AVLCall("begin", 0, 0, FALSE)
    /\ UNCHANGED <<avl_root, avl_size>>

AVLNext ==
    /\ avl_it.active
    /\ avl_it.current # NULL
    /\ avl_it' = [active |-> TRUE,
                  out |-> Append(avl_it.out, <<avl_it.current.key, avl_it.current.value>>)]
                 @@ AVLIt_next(avl_it)
    /\ avl_last' = AVLCall("next", 0, 0, FALSE)
    /\ UNCHANGED <<avl_root, avl_size>>

\* height(): the height stored in the root, 0 for the empty tree.
AVL_tree_height == AVL_height(avl_root)

\* The keys of the scenario.
(***************************************************************************)
(* AVLTree.h, the first version of the tree, whose nested Iterator has the *)
(* only operator-- of the repository.  Its nodes start with height 0; its  *)
(* _fixup_node takes the decisions of AVL_fixup_node.                      *)
(***************************************************************************)
RECURSIVE AVLTree_add(_, _, _)
AVLTree_add(p, key, value) ==
    IF p = NULL THEN AVLNode_height0(key, value)
    ELSE IF key = p.key THEN p
    ELSE IF key < p.key
        THEN AVL_fixup_node([p EXCEPT !.left = AVLTree_add(p.left, key, value)], key)
    ELSE AVL_fixup_node([p EXCEPT !.right = AVLTree_add(p.right, key, value)], key)

\* The while loop of operator--: the nodes from node down its right links.
RECURSIVE AVLTreeIt_push_right(_, _)
AVLTreeIt_push_right(stack, node) ==
    IF node # NULL THEN AVLTreeIt_push_right(Append(stack, node), node.right)
    ELSE stack

\* Iterator::operator--.
AVLTreeIt_decrement(it) ==
    AVLIt_pop(IF it.current.left # NULL
                THEN AVLTreeIt_push_right(it.stack, it.current.left)
                ELSE it.stack)

AVLTreeKeys == 1..AVLTreeMaxKey

\* add(key, value).
AVLTreeAdd(k) ==
    /\ avl_root' = AVLTree_add(avl_root, k, 1)
    /\ avl_it' = AVLItIdle
    /\ avl_last' = AVLCall("add", k, 1, k \in AVLKeySet(avl_root))
    /\ UNCHANGED avl_size

\* ++it on an iterator that is on an element; the call records the key left.
AVLTreeItIncrement ==
    /\ avl_it.active
    /\ avl_it.current # NULL
    /\ Len(avl_it.stack) <= AVLTreeMaxStack
    /\ avl_it' = [active |-> TRUE, out |-> <<>>] @@ AVLIt_next(avl_it)
    /\ avl_last' = AVLCall("increment", avl_it.current.key, 0, FALSE)
    /\ UNCHANGED <<avl_root, avl_size>>

\* --it on an iterator that is on an element.
AVLTreeItDecrement ==
    /\ avl_it.active
    /\ avl_it.current # NULL
    /\ Len(avl_it.stack) <= AVLTreeMaxStack
    /\ avl_it' = [active |-> TRUE, out |-> <<>>] @@ AVLTreeIt_decrement(avl_it)
    /\ avl_last' = AVLCall("decrement", avl_it.current.key, 0, FALSE)
    /\ UNCHANGED <<avl_root, avl_size>>

AVLTreeItNext ==
    \/ \E k \in AVLTreeKeys : AVLTreeAdd(k) /\ UNCHANGED not_avl
    \/ AVLBegin /\ UNCHANGED not_avl
    \/ AVLTreeItIncrement /\ UNCHANGED not_avl
    \/ AVLTreeItDecrement /\ UNCHANGED not_avl

(***************************************************************************)
(* insert and erase of AVLTree.hpp with the rotations of each erase counted *)
(***************************************************************************)
AVLEraseKeys == 1..AVLEraseMaxKey

AVLMapKeys == 1..AVLMapMaxKey

\* insert and erase with keys and values drawn from the given sets.
AVLUpdateNext(keys, values) ==
    \/ \E k \in keys, v \in values :
            /\ AVLInsert(k, v)
            /\ avl_erase' = AVLEraseNone
            /\ UNCHANGED <<avl_order, rb_copied, rb_vars, rt_vars, htc_vars, hto_vars, dict_vars, it_vars>>
    \/ \E k \in keys :
            /\ AVLErase(k)
            /\ avl_erase' =
                    [all |-> AVL_remove_rotations(avl_root, k),
                     successor |->
                        IF AVL_remove_copies(avl_root, k)
                        THEN AVL_remove_successor_rotations(AVL_findNode(avl_root, k).right)
                        ELSE 0,
                     copied |-> AVL_remove_copies(avl_root, k)]
            /\ UNCHANGED <<avl_order, rb_copied, rb_vars, rt_vars, htc_vars, hto_vars, dict_vars, it_vars>>

AVLEraseNext == AVLUpdateNext(AVLEraseKeys, {1})

AVLMapNext == AVLUpdateNext(AVLMapKeys, Values)

AVLScenarioKeys == {10, 20, 25, 30, 40, 50}

\* The scenario: a key that has not been inserted yet is inserted.
AVLScenarioInsert(k) ==
    /\ \A j \in 1..Len(avl_order) : avl_order[j] # k
    /\ AVLInsert(k, 1)
    /\ avl_order' = Append(avl_order, k)
    /\ UNCHANGED avl_erase

AVLScenarioNext ==
    \E k \in AVLScenarioKeys :
        AVLScenarioInsert(k)
            /\ UNCHANGED <<rb_copied, rb_vars, rt_vars, htc_vars, hto_vars, dict_vars, it_vars>>

\* insert calls, find(k) and the iteration from it.
AVLFindNext ==
    \/ \E k \in AVLMapKeys : AVLInsert(k, 1) /\ UNCHANGED not_avl
    \/ \E k \in AVLMapKeys : AVLFind(k) /\ UNCHANGED not_avl
    \/ AVLNext /\ UNCHANGED not_avl

AVLInsertNext == \E k \in AVLKeys, v \in Values : AVLInsert(k, v) /\ UNCHANGED not_avl

AVLNextAll ==
    \/ \E k \in AVLKeys, v \in Values : AVLInsert(k, v) /\ UNCHANGED not_avl
    \/ \E k \in AVLKeys : AVLErase(k) /\ UNCHANGED not_avl
    \/ AVLBegin /\ UNCHANGED not_avl
    \/ AVLNext /\ UNCHANGED not_avl

(***************************************************************************)
(* Red-Black tree.  The nodes live in a heap rb.node indexed by address;   *)
(* address RBNIL holds the sentinel _NIL, whose fields the code reads and  *)
(* writes like those of any node.  rb.root is _root, rb.size is m_size.    *)
(***************************************************************************)
RBNIL == 0

\* The address of a node that has been deleted.
RBDangling == -1

RBNode(key, value, parent, left, right, color) ==
    [key |-> key, value |-> value, parent |-> parent, left |-> left,
     right |-> right, color |-> color]

\* A mutant of RBEmpty: the sentinel is constructed RED.
RBEmpty_red ==
    [root |-> RBNIL,
     node |-> (RBNIL :> RBNode(0, 0, RBNIL, RBNIL, RBNIL, "RED")),
     size |-> 0]

\* RBTree(): _root = _NIL = a BLACK node whose links point to itself.
RBEmpty ==
    [root |-> RBNIL,
     node |-> (RBNIL :> RBNode(0, 0, RBNIL, RBNIL, RBNIL, "BLACK")),
     size |-> 0]

RBSet(t, i, field, v) == [t EXCEPT !.node[i][field] = v]

\* The addresses of the nodes of a subtree in in-order, read off the links.
RECURSIVE RBInOrder(_, _)
RBInOrder(node, i) ==
    IF i = RBNIL THEN <<>>
    ELSE RBInOrder(node, node[i].left) \o <<i>> \o RBInOrder(node, node[i].right)

\* The addresses new and delete hand out are not observable: the heap is kept in
\* one numbering, the node at in-order position j at address j.  A link to a
\* deleted node becomes RBDangling.
RB_addresses(t) ==
    LET order == RBInOrder(t.node, t.root)
        newId(i) == IF i = RBNIL THEN RBNIL
                    ELSE IF \E j \in 1..Len(order) : order[j] = i
                        THEN CHOOSE j \in 1..Len(order) : order[j] = i
                    ELSE RBDangling
        old(j) == IF j = RBNIL THEN RBNIL ELSE order[j]
    IN  [t EXCEPT !.root = newId(t.root),
                  !.node = [j \in 0..Len(order) |->
                              LET n == t.node[old(j)]
                              IN  [n EXCEPT !.parent = newId(n.parent),
                                            !.left = newId(n.left),
                                            !.right = newId(n.right)]]]

RECURSIVE RB_minimum(_, _)
RB_minimum(t, x) ==
    IF t.node[x].left # RBNIL THEN RB_minimum(t, t.node[x].left) ELSE x

\* _search(key) from the node p on.
RECURSIVE RB_search(_, _, _)
RB_search(t, p, key) ==
    IF p # RBNIL /\ t.node[p].key # key
        THEN IF key < t.node[p].key THEN RB_search(t, t.node[p].left, key)
                                    ELSE RB_search(t, t.node[p].right, key)
        ELSE p

RB_contains(t, key) == RB_search(t, t.root, key) # RBNIL

\* The increase of _n_comparisons made by _search(key) from the node p on.
RECURSIVE RB_search_comparisons(_, _, _)
RB_search_comparisons(t, p, key) ==
    IF p # RBNIL /\ t.node[p].key # key
        THEN 3 + RB_search_comparisons(t, IF key < t.node[p].key THEN t.node[p].left
                                                                 ELSE t.node[p].right, key)
        ELSE 0

\* The increase of _n_comparisons made by search(key).
RB_search_value_comparisons(t, key) ==
    RB_search_comparisons(t, t.root, key) + (IF RB_contains(t, key) THEN 1 ELSE 0)

\* Sequencing of the statements of a function body: the value v of one
\* statement is named and handed to the rest of the body.
Bind(v, Rest(_)) == Rest(v)

\* _leftRotate(x) and _rightRotate(x) are one text with the link names
\* exchanged: up is the link to the child y that rises ("right" for the left
\* rotation), down the other link.
RB_rotate(t, x, up, down) ==
    Bind(t.node[x][up], LAMBDA y :
    Bind(RBSet(t, x, up, t.node[y][down]), LAMBDA t1 :
    Bind(IF t1.node[y][down] # RBNIL
            THEN RBSet(t1, t1.node[y][down], "parent", x) ELSE t1, LAMBDA t2 :
    Bind(RBSet(t2, y, "parent", t2.node[x].parent), LAMBDA t3 :
    Bind(IF t3.node[x].parent = RBNIL THEN [t3 EXCEPT !.root = y]
         ELSE IF x = t3.node[t3.node[x].parent][down]
            THEN RBSet(t3, t3.node[x].parent, down, y)
         ELSE RBSet(t3, t3.node[x].parent, up, y), LAMBDA t4 :
    Bind(RBSet(t4, y, down, x), LAMBDA t5 :
        RBSet(t5, x, "parent", y)))))))

RB_leftRotate(t, x) == RB_rotate(t, x, "right", "left")

RB_rightRotate(t, x) == RB_rotate(t, x, "left", "right")

\* The rotation that moves node n towards the link named side.
RB_rotateTo(t, n, side) ==
    IF side = "left" THEN RB_leftRotate(t, n) ELSE RB_rightRotate(t, n)

\* One side of the loop body of _insert_fixup: near and far are the link names
\* ("left", "right") when z's parent is a left child, swapped when it is a
\* right child; the result is the heap and the new z.
RB_insert_fixup_side(t, z, near, far) ==
    Bind(t.node[z].parent, LAMBDA zp :
    Bind(t.node[zp].parent, LAMBDA zpp :
    Bind(t.node[zpp][far], LAMBDA y :
        IF t.node[y].color = "RED"
        THEN [t |-> RBSet(RBSet(RBSet(t, zp, "color", "BLACK"), y, "color", "BLACK"),
                          zpp, "color", "RED"),
              z |-> zpp]
        ELSE
        Bind(z = t.node[zp][far], LAMBDA inner :
        Bind(IF inner THEN RB_rotateTo(t, zp, near) ELSE t, LAMBDA t1 :
        Bind(IF inner THEN zp ELSE z, LAMBDA z1 :
        Bind(RBSet(t1, t1.node[z1].parent, "color", "BLACK"), LAMBDA t2 :
        Bind(RBSet(t2, t2.node[t2.node[z1].parent].parent, "color", "RED"), LAMBDA t3 :
            [t |-> RB_rotateTo(t3, t3.node[t3.node[z1].parent].parent, far),
             z |-> z1])))))
    )))

\* The number of times one turn of the loop of _insert_fixup runs
\* ++_n_rotations; far is "right" when z's parent is a left child.
RB_insert_fixup_side_rotations(t, z, far) ==
    Bind(t.node[z].parent, LAMBDA zp :
    Bind(t.node[t.node[zp].parent][far], LAMBDA y :
        IF t.node[y].color = "RED" THEN 0
        ELSE IF z = t.node[zp][far] THEN 2
        ELSE 1))

\* The increase of _n_rotations made by _insert_fixup(z).
RECURSIVE RB_insert_fixup_rotations(_, _)
RB_insert_fixup_rotations(t, z) ==
    IF t.node[t.node[z].parent].color = "RED"
    THEN IF t.node[z].parent = t.node[t.node[t.node[z].parent].parent].left
            THEN RB_insert_fixup_side_rotations(t, z, "right")
                 + Bind(RB_insert_fixup_side(t, z, "left", "right"), LAMBDA r :
                        RB_insert_fixup_rotations(r.t, r.z))
            ELSE RB_insert_fixup_side_rotations(t, z, "left")
                 + Bind(RB_insert_fixup_side(t, z, "right", "left"), LAMBDA r :
                        RB_insert_fixup_rotations(r.t, r.z))
    ELSE 0

\* A mutant of RB_insert_fixup: the root is not forced BLACK at the end.
RECURSIVE RB_insert_fixup_noroot(_, _)
RB_insert_fixup_noroot(t, z) ==
    IF t.node[t.node[z].parent].color = "RED"
    THEN Bind(IF t.node[z].parent = t.node[t.node[t.node[z].parent].parent].left
                THEN RB_insert_fixup_side(t, z, "left", "right")
                ELSE RB_insert_fixup_side(t, z, "right", "left"), LAMBDA r :
            RB_insert_fixup_noroot(r.t, r.z))
    ELSE t

RECURSIVE RB_insert_fixup(_, _)
RB_insert_fixup(t, z) ==
    IF t.node[t.node[z].parent].color = "RED"
    THEN Bind(IF t.node[z].parent = t.node[t.node[t.node[z].parent].parent].left
                THEN RB_insert_fixup_side(t, z, "left", "right")
                ELSE RB_insert_fixup_side(t, z, "right", "left"), LAMBDA r :
            RB_insert_fixup(r.t, r.z))
    ELSE RBSet(t, t.root, "color", "BLACK")

\* One side of the loop body of _remove_fixup: near and far are "left" and
\* "right" when x is a left child, swapped otherwise; the result is the heap
\* and the new x.
RB_remove_fixup_side(t, x, near, far) ==
    Bind(t.node[t.node[x].parent][far], LAMBDA w0 :
    Bind(t.node[w0].color = "RED", LAMBDA case1 :
    Bind(IF case1
            THEN Bind(RBSet(t, w0, "color", "BLACK"), LAMBDA a :
                 Bind(RBSet(a, a.node[x].parent, "color", "RED"), LAMBDA b :
                    RB_rotateTo(b, b.node[x].parent, near)))
            ELSE t, LAMBDA t1 :
    Bind(IF case1 THEN t1.node[t1.node[x].parent][far] ELSE w0, LAMBDA w1 :
        IF /\ t1.node[t1.node[w1].left].color = "BLACK"
           /\ t1.node[t1.node[w1].right].color = "BLACK"
        THEN [t |-> RBSet(t1, w1, "color", "RED"), x |-> t1.node[x].parent]
        ELSE
        Bind(t1.node[t1.node[w1][far]].color = "BLACK", LAMBDA farBlack :
        Bind(IF farBlack
                THEN Bind(RBSet(t1, t1.node[w1][near], "color", "BLACK"), LAMBDA a :
                     Bind(RBSet(a, w1, "color", "RED"), LAMBDA b :
                        RB_rotateTo(b, w1, far)))
                ELSE t1, LAMBDA t2 :
        Bind(IF farBlack THEN t2.node[t2.node[x].parent][far] ELSE w1, LAMBDA w2 :
        Bind(RBSet(t2, w2, "color", t2.node[t2.node[x].parent].color), LAMBDA t3 :
        Bind(RBSet(t3, t3.node[x].parent, "color", "BLACK"), LAMBDA t4 :
        Bind(RBSet(t4, t4.node[w2][far], "color", "BLACK"), LAMBDA t5 :
        Bind(RB_rotateTo(t5, t5.node[x].parent, near), LAMBDA t6 :
            [t |-> t6, x |-> t6.root])))))))
    ))))

\* A mutant of RB_remove_fixup: nothing is repaired after a BLACK node is unlinked.
RB_remove_fixup_none(t, x) == t

RECURSIVE RB_remove_fixup(_, _)
RB_remove_fixup(t, x) ==
    IF x # t.root /\ t.node[x].color = "BLACK"
    THEN Bind(IF x = t.node[t.node[x].parent].left
                THEN RB_remove_fixup_side(t, x, "left", "right")
                ELSE RB_remove_fixup_side(t, x, "right", "left"), LAMBDA r :
            RB_remove_fixup(r.t, r.x))
    ELSE RBSet(t, x, "color", "BLACK")

\* The descent of insert: the parent p of the new node, or the throw of
\* RB_AlreadyExistsException when the key is met.
RECURSIVE RB_insert_descend(_, _, _, _)
RB_insert_descend(t, c, p, key) ==
    IF c # RBNIL
        THEN IF key = t.node[c].key THEN [throw |-> TRUE, p |-> c]
             ELSE IF key < t.node[c].key
                THEN RB_insert_descend(t, t.node[c].left, c, key)
             ELSE RB_insert_descend(t, t.node[c].right, c, key)
        ELSE [throw |-> FALSE, p |-> p]

\* The part of insert after the descent: the new node n is linked under p,
\* the colours are repaired and m_size grows.
RB_insert_link(t, p, n, key, value) ==
    Bind([t EXCEPT !.node = t.node @@
                (n :> RBNode(key, value, p, RBNIL, RBNIL, "RED"))], LAMBDA t1 :
    Bind(IF p = RBNIL THEN [t1 EXCEPT !.root = n]
         ELSE IF key < t1.node[p].key THEN RBSet(t1, p, "left", n)
         ELSE RBSet(t1, p, "right", n), LAMBDA t2 :
    Bind(RB_insert_fixup(t2, n), LAMBDA t3 :
        [t3 EXCEPT !.size = @ + 1])))

\* The increase of _n_rotations made by insert(key, value): that of the
\* _insert_fixup of the new node n, linked RED under p.
RB_insert_rotations(t, key, value) ==
    Bind(RB_insert_descend(t, t.root, RBNIL, key), LAMBDA d :
        IF d.throw THEN 0
        ELSE
        Bind(Len(RBInOrder(t.node, t.root)) + 1, LAMBDA n :
        Bind([t EXCEPT !.node = t.node @@
                    (n :> RBNode(key, value, d.p, RBNIL, RBNIL, "RED"))], LAMBDA t1 :
        Bind(IF d.p = RBNIL THEN [t1 EXCEPT !.root = n]
             ELSE IF key < t1.node[d.p].key THEN RBSet(t1, d.p, "left", n)
             ELSE RBSet(t1, d.p, "right", n), LAMBDA t2 :
            RB_insert_fixup_rotations(t2, n)))))

\* A mutant of RB_insert: a key that is already stored gets the new value and
\* nothing is raised.
RB_insert_overwrite(t, key, value) ==
    Bind(RB_insert_descend(t, t.root, RBNIL, key), LAMBDA d :
        IF d.throw THEN [t |-> RBSet(t, d.p, "value", value), ret |-> "ok"]
        ELSE [t |-> RB_addresses(RB_insert_link(t, d.p,
                        Len(RBInOrder(t.node, t.root)) + 1, key, value)),
              ret |-> "ok"])

\* insert(key, value): the tree after the call and what the call raised.
RB_insert(t, key, value) ==
    Bind(RB_insert_descend(t, t.root, RBNIL, key), LAMBDA d :
        IF d.throw THEN [t |-> t, ret |-> "AlreadyExists"]
        ELSE [t |-> RB_addresses(RB_insert_link(t, d.p,
                        Len(RBInOrder(t.node, t.root)) + 1, key, value)),
              ret |-> "ok"])

\* A mutant of RB_rb_delete: when the successor y is unlinked in place of z,
\* its key and value are not copied into z.
RB_rb_delete_nocopy(t, z) ==
    Bind(IF t.node[z].left = RBNIL \/ t.node[z].right = RBNIL
            THEN z ELSE RB_minimum(t, t.node[z].right), LAMBDA y :
    Bind(IF t.node[y].left = RBNIL THEN t.node[y].right ELSE t.node[y].left, LAMBDA x :
    Bind(RBSet(t, x, "parent", t.node[y].parent), LAMBDA t1 :
    Bind(IF t1.node[y].parent = RBNIL THEN [t1 EXCEPT !.root = x]
         ELSE IF y = t1.node[t1.node[y].parent].left
            THEN RBSet(t1, t1.node[y].parent, "left", x)
         ELSE RBSet(t1, t1.node[y].parent, "right", x), LAMBDA t2 :
        IF t2.node[y].color = "BLACK" THEN RB_remove_fixup(t2, x) ELSE t2))))

\* _remove(z), the unlinking of node z: the body is RBTree.h's _rb_delete.
RB_rb_delete(t, z) ==
    Bind(IF t.node[z].left = RBNIL \/ t.node[z].right = RBNIL
            THEN z ELSE RB_minimum(t, t.node[z].right), LAMBDA y :
    Bind(IF t.node[y].left = RBNIL THEN t.node[y].right ELSE t.node[y].left, LAMBDA x :
    Bind(RBSet(t, x, "parent", t.node[y].parent), LAMBDA t1 :
    Bind(IF t1.node[y].parent = RBNIL THEN [t1 EXCEPT !.root = x]
         ELSE IF y = t1.node[t1.node[y].parent].left
            THEN RBSet(t1, t1.node[y].parent, "left", x)
         ELSE RBSet(t1, t1.node[y].parent, "right", x), LAMBDA t2 :
    Bind(IF y # z
            THEN RBSet(RBSet(t2, z, "key", t2.node[y].key), z, "value", t2.node[y].value)
            ELSE t2, LAMBDA t3 :
        IF t3.node[y].color = "BLACK" THEN RB_remove_fixup(t3, x) ELSE t3)))))

\* Whether remove(key) finds a node z with two children, in whose place
\* _rb_delete unlinks the successor y and copies its key and value into z.
RB_remove_copies(t, key) ==
    Bind(RB_search(t, t.root, key), LAMBDA z :
        /\ z # RBNIL
        /\ t.node[z].left # RBNIL
        /\ t.node[z].right # RBNIL)

\* search(key): the value, or the exception thrown.
RB_search_value(t, key) ==
    Bind(RB_search(t, t.root, key), LAMBDA node :
        IF node = RBNIL
            THEN [ret |-> "RB_ValueNotFoundException", value |-> 0]
            ELSE [ret |-> "ok", value |-> t.node[node].value])

\* remove(key): nothing is raised, whether the key is found or not.
RB_remove(t, key) ==
    Bind(RB_search(t, t.root, key), LAMBDA z :
        IF z # RBNIL
            THEN RB_addresses([RB_rb_delete(t, z) EXCEPT !.size = @ - 1])
            ELSE t)

(***************************************************************************)
(* RBTreeIterator: current (nil is the tree's _NIL).                       *)
(***************************************************************************)
RBIt_begin(t) == IF t.root # RBNIL THEN RB_minimum(t, t.root) ELSE RBNIL

RECURSIVE RBIt_climb(_, _, _)
RBIt_climb(t, current, p) ==
    IF p # RBNIL /\ current = t.node[p].right
        THEN RBIt_climb(t, p, t.node[p].parent)
        ELSE p

\* A mutant of RBIt_next: without a right subtree the parent is the next node.
RBIt_next_parent(t, current) ==
    IF t.node[current].right # RBNIL
        THEN RB_minimum(t, t.node[current].right)
        ELSE t.node[current].parent

RBIt_next(t, current) ==
    IF t.node[current].right # RBNIL
        THEN RB_minimum(t, t.node[current].right)
        ELSE RBIt_climb(t, current, t.node[current].parent)

RBItIdle == [active |-> FALSE, current |-> RBNIL, out |-> <<>>]

(***************************************************************************)
(* Ground truth about the Red-Black tree, read off the links alone.        *)
(***************************************************************************)
RBLive(t) ==
    LET order == RBInOrder(t.node, t.root)
    IN  {order[j] : j \in 1..Len(order)}

RBPairs(t) ==
    LET order == RBInOrder(t.node, t.root)
    IN  [j \in 1..Len(order) |-> <<t.node[order[j]].key, t.node[order[j]].value>>]

RBKeySet(t) == {t.node[i].key : i \in RBLive(t)}

\* The numbers of BLACK nodes on the paths from node i down to a sentinel leaf.
RECURSIVE RBBlackCounts(_, _)
RBBlackCounts(t, i) ==
    IF i = RBNIL THEN {0}
    ELSE LET own == IF t.node[i].color = "BLACK" THEN 1 ELSE 0
         IN  {c + own : c \in RBBlackCounts(t, t.node[i].left)
                                \cup RBBlackCounts(t, t.node[i].right)}

(***************************************************************************)
(* Red-Black actions                                                       *)
(***************************************************************************)
\* The record of a call: its name, whether its key was stored when the call was
\* made, and what the call raised.
RBCall(op, hit, ret) == [op |-> op, hit |-> hit, ret |-> ret]

RBInit ==
    /\ rb = RBEmpty
    /\ rb_copied = FALSE
    /\ rb_it = RBItIdle
    /\ rb_last = RBCall("init", FALSE, "ok")

RBInsert(k, v) ==
    LET r == RB_insert(rb, k, v)
    IN  /\ rb' = r.t
        /\ rb_it' = RBItIdle
        /\ rb_last' = RBCall("insert", k \in RBKeySet(rb), r.ret)

RBRemove(k) ==
    /\ rb' = RB_remove(rb, k)
    /\ rb_it' = RBItIdle
    /\ rb_last' = RBCall("remove", k \in RBKeySet(rb), "ok")

\* contains(key) and search(key): the tree is read, _n_comparisons written.
RBContains(k) ==
    /\ rb_last' = RBCall("contains", k \in RBKeySet(rb), "ok")
    /\ UNCHANGED <<rb, rb_it>>

RBSearch(k) ==
    /\ rb_last' = RBCall("search", k \in RBKeySet(rb),
                         IF RB_contains(rb, k) THEN "ok" ELSE "ValueNotFound")
    /\ UNCHANGED <<rb, rb_it>>

RBBegin ==
    /\ rb_it' = [active |-> TRUE, current |-> RBIt_begin(rb), out |-> <<>>]
    /\ rb_last' = RBCall("begin", FALSE, "ok")
    /\ UNCHANGED rb

RBNext ==
    /\ rb_it.active
    /\ rb_it.current # RBNIL
    /\ rb_it' = [active |-> TRUE,
                 current |-> RBIt_next(rb, rb_it.current),
                 out |-> Append(rb_it.out, <<rb.node[rb_it.current].key,
                                             rb.node[rb_it.current].value>>)]
    /\ rb_last' = RBCall("next", FALSE, "ok")
    /\ UNCHANGED rb

RBMapKeys == 1..RBMapMaxKey

\* clear(): _delete_subtree(_root); _root = _NIL.  m_size is not written.
RB_clear(t) == RB_addresses([t EXCEPT !.root = RBNIL])

RBClear ==
    /\ rb.size <= RBClearMaxSize
    /\ rb' = RB_clear(rb)
    /\ rb_it' = RBItIdle
    /\ rb_last' = RBCall("clear", FALSE, "ok")

\* insert and clear.
RBClearNext ==
    \/ \E k \in RBMapKeys, v \in Values : RBInsert(k, v) /\ UNCHANGED not_rb
    \/ RBClear /\ UNCHANGED not_rb

\* insert and remove, with the copy of a successor made by remove recorded.
RBMapNext ==
    \/ \E k \in RBMapKeys, v \in Values :
            /\ RBInsert(k, v)
            /\ rb_copied' = FALSE
            /\ UNCHANGED <<avl_vars, avl_order, avl_erase, rt_vars, htc_vars, hto_vars, dict_vars, it_vars>>
    \/ \E k \in RBMapKeys :
            /\ RBRemove(k)
            /\ rb_copied' = RB_remove_copies(rb, k)
            /\ UNCHANGED <<avl_vars, avl_order, avl_erase, rt_vars, htc_vars, hto_vars, dict_vars, it_vars>>

RotKeys == 1..RotMaxKey

\* insert and remove calls on one of the two trees, one value: the other tree
\* stays as constructed.
RotationsNext ==
    \/ \E k \in RotKeys : rb_last.op = "init" /\ AVLInsert(k, 1) /\ UNCHANGED not_avl
    \/ \E k \in RotKeys : rb_last.op = "init" /\ AVLErase(k) /\ UNCHANGED not_avl
    \/ \E k \in RotKeys : avl_last.op = "init" /\ RBInsert(k, 1) /\ UNCHANGED not_rb
    \/ \E k \in RotKeys : avl_last.op = "init" /\ RBRemove(k) /\ UNCHANGED not_rb

\* The calls that change the tree.
RBUpdateNext ==
    \/ \E k \in RBKeys, v \in Values : RBInsert(k, v) /\ UNCHANGED not_rb
    \/ \E k \in RBKeys : RBRemove(k) /\ UNCHANGED not_rb

RBNextAll ==
    \/ \E k \in RBKeys, v \in Values : RBInsert(k, v) /\ UNCHANGED not_rb
    \/ \E k \in RBKeys : RBRemove(k) /\ UNCHANGED not_rb
    \/ RBBegin /\ UNCHANGED not_rb
    \/ RBNext /\ UNCHANGED not_rb

(***************************************************************************)
(* Chained hash table.  htc.table is *m_table, a vector of m_table_size     *)
(* lists of (key, value) pairs indexed from 0; htc.size is m_table_size,   *)
(* htc.n is m_number_of_elements, htc.lf is m_load_factor as a fraction;   *)
(* htc.alive is FALSE once the process has died in undefined behaviour.    *)
(***************************************************************************)
\* The default of the constructor's tableSize.
HTC_DefaultTableSize == 19

\* m_hashing with Key = int: std::hash of an integer is the integer.
HTC_hashing(k) == k

\* The for loop of get_next_prime: has x a divisor among i .. sqrt(x)?
RECURSIVE HTC_has_divisor(_, _)
HTC_has_divisor(x, i) ==
    IF i * i <= x
        THEN IF x % i = 0 THEN TRUE ELSE HTC_has_divisor(x, i + 1)
        ELSE FALSE

\* The while loop of get_next_prime from the odd number x on.
RECURSIVE HTC_next_prime_from(_)
HTC_next_prime_from(x) ==
    IF HTC_has_divisor(x, 2) THEN HTC_next_prime_from(x + 2) ELSE x

HTC_get_next_prime(x) ==
    IF x <= 2 THEN 3
    ELSE HTC_next_prime_from(IF x % 2 = 0 THEN x + 1 ELSE x)

HTC_hash_code(h, k) == HTC_hashing(k) % h.size

\* The inner loop of rehash with the index taken in the table that is being replaced.
RECURSIVE HTC_rehash_list_old(_, _, _)
HTC_rehash_list_old(new_table, list, new_size) ==
    IF list = <<>> THEN new_table
    ELSE HTC_rehash_list_old(
            [new_table EXCEPT ![HTC_hashing(Head(list)[1]) % (new_size \div 2)] =
                                    Append(@, Head(list))],
            Tail(list), new_size)

\* The inner loop of rehash: the pairs of one list are appended, in order, to
\* their lists of the new table.
RECURSIVE HTC_rehash_list(_, _, _)
HTC_rehash_list(new_table, list, new_size) ==
    IF list = <<>> THEN new_table
    ELSE HTC_rehash_list(
            [new_table EXCEPT ![HTC_hashing(Head(list)[1]) % new_size] =
                                    Append(@, Head(list))],
            Tail(list), new_size)

\* The outer loop of rehash from list i on.
RECURSIVE HTC_rehash_from(_, _, _, _)
HTC_rehash_from(h, new_table, i, new_size) ==
    IF i < h.size
        THEN HTC_rehash_from(h, HTC_rehash_list(new_table, h.table[i], new_size),
                             i + 1, new_size)
        ELSE new_table

HTC_rehash(h, new_size) ==
    [h EXCEPT !.table = HTC_rehash_from(h, [j \in 0..(new_size - 1) |-> <<>>],
                                        0, new_size),
              !.size = new_size]

\* HashTable_Chaining(tableSize).
HTC_new(tableSize) ==
    [table |-> [j \in 0..(HTC_get_next_prime(tableSize) - 1) |-> <<>>],
     size  |-> HTC_get_next_prime(tableSize),
     n     |-> 0,
     lf    |-> [num |-> 3, den |-> 4],
     alive |-> TRUE]

\* static_cast<float>(m_number_of_elements) / m_table_size > m_load_factor
HTC_over_load(h) == h.n * h.lf.den > h.lf.num * h.size

\* The scan of one list for the key k.
HTC_in_list(list, k) == \E j \in 1..Len(list) : list[j][1] = k

\* The part of add after the load check: the scan of the list and the push_back.
HTC_add_scan(h, k, v) ==
    IF HTC_in_list(h.table[HTC_hash_code(h, k)], k)
        THEN [h |-> h, ret |-> "AlreadyExists"]
        ELSE [h |-> [h EXCEPT !.table[HTC_hash_code(h, k)] = Append(@, <<k, v>>),
                              !.n = @ + 1],
              ret |-> "ok"]

\* add(k, v): the table after the call and what the call raised.
HTC_add(h, k, v) ==
    HTC_add_scan(IF HTC_over_load(h) THEN HTC_rehash(h, h.size * 2) ELSE h, k, v)

\* remove(k) up to the ++it that follows the erase: the pair is erased and
\* m_number_of_elements decremented when the key is in its list.
HTC_remove(h, k) ==
    IF HTC_in_list(h.table[HTC_hash_code(h, k)], k)
        THEN [h EXCEPT !.table[HTC_hash_code(h, k)] =
                            SelectSeq(@, LAMBDA par : par[1] # k),
                       !.n = @ - 1]
        ELSE h

HTC_contains(h, k) == HTC_in_list(h.table[HTC_hash_code(h, k)], k)

\* The increase of _n_comparisons made by contains(k) and by at(k): one where
\* the key is met in its list.
HTC_contains_comparisons(h, k) == IF HTC_contains(h, k) THEN 1 ELSE 0

\* Ground truth: the pairs stored in the lists, whatever list they are in.
HTCPairs(h) ==
    UNION {{h.table[i][j] : j \in 1..Len(h.table[i])} : i \in DOMAIN h.table}

HTCKeySet(h) == {par[1] : par \in HTCPairs(h)}

\* at(k): the value of the first pair of the list with the key k, or the throw
\* of HTC_KeyNotFoundException.
RECURSIVE HTC_at_list(_, _)
HTC_at_list(list, k) ==
    IF list = <<>> THEN [ret |-> "KeyNotFound", value |-> 0]
    ELSE IF Head(list)[1] = k THEN [ret |-> "ok", value |-> Head(list)[2]]
    ELSE HTC_at_list(Tail(list), k)

HTC_at(h, k) == HTC_at_list(h.table[HTC_hash_code(h, k)], k)

\* The record of a call: its name, whether its key was stored when the call was
\* made, whether the call ran rehash, and what the call raised.
HTCCall(op, hit, rehashed, ret) ==
    [op |-> op, hit |-> hit, rehashed |-> rehashed, ret |-> ret]

\* A table constructed with the default tableSize, never used.
(***************************************************************************)
(* HashTable_Chaining::Iterator: index is m_index; pos is the number of    *)
(* steps m_it is from the begin() of bucket index, the length of the       *)
(* bucket when m_it is its end().  past records that the bucket array has  *)
(* been indexed at m_table_size or beyond, which is undefined: m_it is     *)
(* then whatever the read gave, or the process has died (alive = FALSE).   *)
(***************************************************************************)
HTCItIdle ==
    [active |-> FALSE, index |-> 0, pos |-> 0, past |-> FALSE, alive |-> TRUE,
     out |-> <<>>]

\* The while loop of begin(): the first bucket from index on that is not empty.
RECURSIVE HTC_begin_index(_, _)
HTC_begin_index(h, index) ==
    IF index < h.size /\ h.table[index] = <<>>
        THEN HTC_begin_index(h, index + 1)
        ELSE index

\* begin(): Iterator(this, index, 0).
HTCIt_begin(h) ==
    [index |-> HTC_begin_index(h, 0), pos |-> 0, past |-> FALSE]

\* The while loop of operator++: m_index++ and then the read of bucket
\* m_index, before m_index is compared with m_table_size.
RECURSIVE HTCIt_skip(_, _, _)
HTCIt_skip(h, index, pos) ==
    IF index < h.size /\ pos = Len(h.table[index])
        THEN IF index + 1 < h.size
                THEN HTCIt_skip(h, index + 1, 0)
                ELSE [index |-> index + 1, pos |-> 0, past |-> TRUE]
        ELSE [index |-> index, pos |-> pos, past |-> FALSE]

\* Iterator::operator++.
HTCIt_increment(h, it) ==
    IF it.index >= h.size
        THEN [index |-> it.index, pos |-> it.pos, past |-> it.past]
        ELSE HTCIt_skip(h, it.index, it.pos + 1)

HTCDefault ==
    /\ htc_it = HTCItIdle
    /\ htc = HTC_new(HTC_DefaultTableSize)
    /\ htc_last = HTCCall("init", FALSE, FALSE, "ok")
    /\ htc_rehashes = 0

HTCInit ==
    /\ htc_it = HTCItIdle
    /\ \E tableSize \in 1..HTCMaxRequest : htc = HTC_new(tableSize)
    /\ htc_last = HTCCall("init", FALSE, FALSE, "ok")
    /\ htc_rehashes = 0

HTCAdd(k, v) ==
    /\ htc.alive
    /\ htc' = HTC_add(htc, k, v).h
    /\ htc_last' = HTCCall("add", k \in HTCKeySet(htc), HTC_over_load(htc),
                           HTC_add(htc, k, v).ret)
    /\ htc_rehashes' = htc_rehashes + (IF HTC_over_load(htc) THEN 1 ELSE 0)

\* remove(k): when the key is found, ++it is applied to the erased iterator,
\* which is undefined: the loop either runs on to the end of the list and the
\* call throws HTC_KeyNotFoundException, or the process dies.
HTCRemove(k) ==
    /\ htc.alive
    /\ IF HTC_contains(htc, k)
        THEN \E alive \in BOOLEAN :
                /\ htc' = [HTC_remove(htc, k) EXCEPT !.alive = alive]
                /\ htc_last' = HTCCall("remove", k \in HTCKeySet(htc), FALSE,
                                       IF alive THEN "KeyNotFound" ELSE "undefined")
        ELSE /\ htc' = htc
             /\ htc_last' = HTCCall("remove", k \in HTCKeySet(htc), FALSE,
                                    "KeyNotFound")
    /\ UNCHANGED htc_rehashes

\* at(k): nothing is written; the call returns the value or throws.
HTCAt(k) ==
    /\ htc.alive
    /\ htc_last' = HTCCall("at", k \in HTCKeySet(htc), FALSE, HTC_at(htc, k).ret)
    /\ UNCHANGED <<htc, htc_rehashes>>

\* contains(k): nothing but _n_comparisons is written.
HTCContains(k) ==
    /\ htc.alive
    /\ htc_last' = HTCCall("contains", k \in HTCKeySet(htc), FALSE, "ok")
    /\ UNCHANGED <<htc, htc_rehashes>>

\* The scenario: unique keys are added, one value each, to a table constructed
\* with the default tableSize.
HTCAddUnique(k) ==
    /\ k \notin HTCKeySet(htc)
    /\ HTCAdd(k, 1)

\* The scan of operator[]: the position in the list of the pair with the key
\* k, 0 when no pair has it.
HTC_position(list, k) ==
    IF HTC_in_list(list, k)
        THEN CHOOSE j \in 1..Len(list) :
                list[j][1] = k /\ \A i \in 1..(j - 1) : list[i][1] # k
        ELSE 0

\* operator[](k): the table after the call and the pair whose value the
\* reference returned is bound to, as a list index and a position in that
\* list.  index is hash_code(k) as computed on entry; where the key is not in
\* that list add(k, Value()) is called and the reference is to back() of list
\* index of the table add leaves; pos 0 stands for back() of an empty list.
HTC_subscript(h, k) ==
    Bind(HTC_hash_code(h, k), LAMBDA index :
        IF HTC_in_list(h.table[index], k)
            THEN [h |-> h, index |-> index, pos |-> HTC_position(h.table[index], k)]
            ELSE Bind(HTC_add(h, k, 0).h, LAMBDA h2 :
                    [h |-> h2, index |-> index, pos |-> Len(h2.table[index])]))

\* t[k] = v.  back() of an empty list is undefined: the write either leaves
\* the pairs of the table as they are or the process dies.
HTCSubscriptAssign(k, v) ==
    /\ htc.alive
    /\ Bind(HTC_subscript(htc, k), LAMBDA r :
            IF r.pos = 0
                THEN \E alive \in BOOLEAN : htc' = [r.h EXCEPT !.alive = alive]
                ELSE htc' = [r.h EXCEPT !.table[r.index][r.pos][2] = v])
    /\ htc_last' = HTCCall("subscript", k \in HTCKeySet(htc),
                           ~HTC_contains(htc, k) /\ HTC_over_load(htc), "ok")
    /\ htc_rehashes' = htc_rehashes
                        + (IF ~HTC_contains(htc, k) /\ HTC_over_load(htc) THEN 1 ELSE 0)

\* The frame of the chained table and its iterator.
not_htc_it == <<avl_vars, scenario_vars, rb_vars, rt_vars, hto_vars, dict_vars, hto_it>>

\* it = begin().
HTCBegin ==
    /\ htc.alive
    /\ htc_it.alive
    /\ htc_it' = [active |-> TRUE, alive |-> TRUE, out |-> <<>>] @@ HTCIt_begin(htc)
    /\ htc_last' = HTCCall("begin", FALSE, FALSE, "ok")
    /\ UNCHANGED <<htc, htc_rehashes>>

\* One turn of for (; it != end(); ++it): *it is read and ++it applied.  When
\* ++it indexes the bucket array out of bounds the process goes on or dies.
HTCItNext ==
    /\ htc_it.active
    /\ htc_it.alive
    /\ htc_it.index # htc.size
    /\ \E alive \in BOOLEAN :
        /\ alive \/ HTCIt_increment(htc, htc_it).past
        /\ htc_it' = [active |-> TRUE,
                      alive |-> alive,
                      out |-> Append(htc_it.out,
                                     htc.table[htc_it.index][htc_it.pos + 1])]
                     @@ HTCIt_increment(htc, htc_it)
    /\ htc_last' = HTCCall("next", FALSE, FALSE, "ok")
    /\ UNCHANGED <<htc, htc_rehashes>>

\* add calls and iterations.
HTCItNextAll ==
    \/ \E k \in HTCKeys, v \in Values :
            HTCAdd(k, v) /\ htc_it.alive /\ htc_it' = HTCItIdle /\ UNCHANGED not_htc_it
    \/ HTCBegin /\ UNCHANGED not_htc_it
    \/ HTCItNext /\ UNCHANGED not_htc_it

HTCNextAll ==
    \/ \E k \in HTCKeys, v \in Values : HTCAdd(k, v) /\ UNCHANGED not_htc
    \/ \E k \in HTCKeys : HTCRemove(k) /\ UNCHANGED not_htc
    \/ \E k \in HTCKeys : HTCAt(k) /\ UNCHANGED not_htc

HTCScenarioNext ==
    \E k \in HTCScenarioKeys : HTCAddUnique(k) /\ UNCHANGED not_htc

(***************************************************************************)
(* Open-addressing hash table.  hto.table is *m_table, a vector of         *)
(* m_table_size entries (key, value, state) indexed from 0; hto.size is    *)
(* m_table_size, hto.n is m_number_of_elements, hto.lf is m_load_factor.   *)
(***************************************************************************)
\* The default of the constructor's tableSize.
HTO_DefaultTableSize == 19

\* m_hashing with Key = int: std::hash of an integer is the integer.
HTO_hashing(k) == k

\* Entry(): the state is EMPTY; the key and the value of such an entry are
\* never read.
HTO_Entry == [key |-> 0, value |-> 0, state |-> "EMPTY"]

RECURSIVE HTO_has_divisor(_, _)
HTO_has_divisor(x, i) ==
    IF i * i <= x
        THEN IF x % i = 0 THEN TRUE ELSE HTO_has_divisor(x, i + 1)
        ELSE FALSE

RECURSIVE HTO_next_prime_from(_)
HTO_next_prime_from(x) ==
    IF HTO_has_divisor(x, 2) THEN HTO_next_prime_from(x + 2) ELSE x

HTO_get_next_prime(x) ==
    IF x <= 2 THEN 3
    ELSE HTO_next_prime_from(IF x % 2 = 0 THEN x + 1 ELSE x)

HTOFarKey == 1 + HTO_get_next_prime(2 * HTO_get_next_prime(1))

\* The keys 1 .. HTOMaxKey and HTOFarKey, the least key above them that has the
\* hash of key 1 in the table an add grows the smallest table to.
HTOKeys == (1..HTOMaxKey) \cup {HTOFarKey}

\* size_t arithmetic.  A size_t value s is held as the integer congruent to
\* it modulo 2^64 that is nearest to 0, so that a sum wraps by itself; the
\* value of a negative s is 2^64 + s.  SizeT_wrap_mod(m) is 2^64 % m, from
\* 2^16 by two squarings; SizeT_mod(s, m) is the size_t expression s % m.
SizeT_wrap_mod(m) ==
    Bind((65536 % m) * (65536 % m) % m, LAMBDA p32 : (p32 * p32) % m)

SizeT_mod(s, m) ==
    IF s >= 0 THEN s % m ELSE (SizeT_wrap_mod(m) + (s % m)) % m

HTO_hash2(h, k) == 1 + SizeT_mod(HTO_hashing(k), h.size - 1)

HTO_hash_code(h, k, i) == SizeT_mod(HTO_hashing(k) + i * HTO_hash2(h, k), h.size)

\* The do-while of rehash: the entry goes to the first slot of the new table,
\* from its hash on in steps of one, that is not OCCUPIED.
RECURSIVE HTO_rehash_entry(_, _, _, _)
HTO_rehash_entry(new_table, entry, j, new_size) ==
    IF new_table[SizeT_mod(HTO_hashing(entry.key) + j, new_size)].state = "OCCUPIED"
        THEN HTO_rehash_entry(new_table, entry, j + 1, new_size)
        ELSE [new_table EXCEPT ![SizeT_mod(HTO_hashing(entry.key) + j, new_size)] = entry]

\* The for loop of rehash from slot i on.
RECURSIVE HTO_rehash_from(_, _, _, _)
HTO_rehash_from(h, new_table, i, new_size) ==
    IF i < h.size
        THEN HTO_rehash_from(h,
                IF h.table[i].state = "OCCUPIED"
                    THEN HTO_rehash_entry(new_table, h.table[i], 0, new_size)
                    ELSE new_table,
                i + 1, new_size)
        ELSE new_table

HTO_rehash(h, new_size) ==
    [h EXCEPT !.table = HTO_rehash_from(h, [j \in 0..(new_size - 1) |-> HTO_Entry],
                                        0, new_size),
              !.size = new_size]

\* HashTable_OpenAddressing(tableSize).
HTO_new(tableSize) ==
    [table |-> [j \in 0..(HTO_get_next_prime(tableSize) - 1) |-> HTO_Entry],
     size  |-> HTO_get_next_prime(tableSize),
     n     |-> 0,
     lf    |-> [num |-> 3, den |-> 4]]

\* static_cast<float>(m_number_of_elements) / m_table_size > m_load_factor
HTO_over_load(h) == h.n * h.lf.den > h.lf.num * h.size

\* The do-while of add from probe i on: the table and the value returned.
RECURSIVE HTO_add_probe(_, _, _, _)
HTO_add_probe(h, k, v, i) ==
    Bind(HTO_hash_code(h, k, i), LAMBDA index :
        IF h.table[index].state = "EMPTY" \/ h.table[index].state = "DELETED"
            THEN [h |-> [h EXCEPT !.table[index] =
                                    [key |-> k, value |-> v, state |-> "OCCUPIED"],
                                  !.n = @ + 1],
                  ret |-> TRUE]
        ELSE IF h.table[index].state = "OCCUPIED" /\ h.table[index].key = k
            THEN [h |-> h, ret |-> FALSE]
        ELSE IF i + 1 < h.size
            THEN HTO_add_probe(h, k, v, i + 1)
        ELSE [h |-> h, ret |-> FALSE])

HTO_add(h, k, v) ==
    HTO_add_probe(IF HTO_over_load(h)
                    THEN HTO_rehash(h, HTO_get_next_prime(h.size * 2))
                    ELSE h,
                  k, v, 0)

\* HTO_remove_probe with the slot of the key marked EMPTY, not DELETED.
RECURSIVE HTO_remove_probe_empty(_, _, _)
HTO_remove_probe_empty(h, k, i) ==
    Bind(HTO_hash_code(h, k, i), LAMBDA index :
        IF h.table[index].state = "OCCUPIED" /\ h.table[index].key = k
            THEN [h |-> [h EXCEPT !.table[index].state = "EMPTY", !.n = @ - 1],
                  ret |-> TRUE]
        ELSE IF h.table[index].state = "EMPTY"
            THEN [h |-> h, ret |-> FALSE]
        ELSE IF i + 1 < h.size
            THEN HTO_remove_probe_empty(h, k, i + 1)
        ELSE [h |-> h, ret |-> FALSE])

\* The do-while of remove from probe i on: the table and the value returned.
RECURSIVE HTO_remove_probe(_, _, _)
HTO_remove_probe(h, k, i) ==
    Bind(HTO_hash_code(h, k, i), LAMBDA index :
        IF h.table[index].state = "OCCUPIED" /\ h.table[index].key = k
            THEN [h |-> [h EXCEPT !.table[index].state = "DELETED", !.n = @ - 1],
                  ret |-> TRUE]
        ELSE IF h.table[index].state = "EMPTY"
            THEN [h |-> h, ret |-> FALSE]
        ELSE IF i + 1 < h.size
            THEN HTO_remove_probe(h, k, i + 1)
        ELSE [h |-> h, ret |-> FALSE])

HTO_remove(h, k) == HTO_remove_probe(h, k, 0)

\* The do-while of contains from probe i on.
RECURSIVE HTO_contains_probe(_, _, _)
HTO_contains_probe(h, k, i) ==
    Bind(HTO_hash_code(h, k, i), LAMBDA index :
        IF h.table[index].state = "OCCUPIED" /\ h.table[index].key = k
            THEN TRUE
        ELSE IF h.table[index].state = "EMPTY"
            THEN FALSE
        ELSE IF i + 1 < h.size
            THEN HTO_contains_probe(h, k, i + 1)
        ELSE FALSE)

HTO_contains(h, k) == HTO_contains_probe(h, k, 0)

\* The do-while of at from probe i on: the value found, or the throw of
\* HTO_KeyNotFoundException.
RECURSIVE HTO_at_probe(_, _, _)
HTO_at_probe(h, k, i) ==
    Bind(HTO_hash_code(h, k, i), LAMBDA index :
        IF h.table[index].state = "OCCUPIED" /\ h.table[index].key = k
            THEN [ret |-> "ok", value |-> h.table[index].value]
        ELSE IF h.table[index].state = "EMPTY"
            THEN [ret |-> "KeyNotFound", value |-> 0]
        ELSE IF i + 1 < h.size
            THEN HTO_at_probe(h, k, i + 1)
        ELSE [ret |-> "KeyNotFound", value |-> 0])

HTO_at(h, k) == HTO_at_probe(h, k, 0)

\* The increase of _n_comparisons made by the do-while of contains, and of
\* at, from probe i on.
RECURSIVE HTO_contains_comparisons(_, _, _)
HTO_contains_comparisons(h, k, i) ==
    Bind(HTO_hash_code(h, k, i), LAMBDA index :
        IF h.table[index].state = "OCCUPIED" /\ h.table[index].key = k THEN 2
        ELSE IF h.table[index].state = "EMPTY" THEN 2
        ELSE IF i + 1 < h.size THEN 1 + HTO_contains_comparisons(h, k, i + 1)
        ELSE 1)

\* Ground truth: the OCCUPIED slots and the pairs they hold.
HTOOccupied(h) == {i \in DOMAIN h.table : h.table[i].state = "OCCUPIED"}

HTOPairs(h) == {<<h.table[i].key, h.table[i].value>> : i \in HTOOccupied(h)}

HTOKeySet(h) == {h.table[i].key : i \in HTOOccupied(h)}

\* The record of a call: its name, whether its key was in an OCCUPIED slot and
\* whether contains(key) held when the call was made, and what it returned.
HTOCall(op, hit, found, ret) == [op |-> op, hit |-> hit, found |-> found, ret |-> ret]

\* A table constructed with the default tableSize, never used.
(***************************************************************************)
(* HashTable_OpenAddressing::Iterator: index is m_index.                   *)
(***************************************************************************)
HTOItIdle == [active |-> FALSE, index |-> 0, out |-> <<>>]

\* A mutant of HTOIt_skip: the state of the slots is not looked at.
HTOIt_skip_none(h, index) == index

\* The while loop of operator++: the first OCCUPIED slot from index on.
RECURSIVE HTOIt_skip(_, _)
HTOIt_skip(h, index) ==
    IF index < h.size /\ h.table[index].state # "OCCUPIED"
        THEN HTOIt_skip(h, index + 1)
        ELSE index

\* Iterator::operator++.
HTOIt_increment(h, index) ==
    IF index >= h.size THEN index ELSE HTOIt_skip(h, index + 1)

\* Iterator(ht, index).
HTOIt_new(h, index) ==
    IF index < h.size /\ h.table[index].state # "OCCUPIED"
        THEN HTOIt_increment(h, index)
        ELSE index

\* begin().
HTOIt_begin(h) ==
    HTOIt_new(h, IF h.table[0].state # "OCCUPIED" THEN 1 ELSE 0)

HTODefault ==
    /\ hto_it = HTOItIdle
    /\ hto = HTO_new(HTO_DefaultTableSize)
    /\ hto_last = HTOCall("init", FALSE, FALSE, FALSE)

HTOInit ==
    /\ hto_it = HTOItIdle
    /\ \E tableSize \in 1..HTOMaxRequest : hto = HTO_new(tableSize)
    /\ hto_last = HTOCall("init", FALSE, FALSE, FALSE)

\* add(k, v), called on a table of at most HTOMaxTable slots.
HTOAdd(k, v) ==
    /\ hto.size <= HTOMaxTable
    /\ hto' = HTO_add(hto, k, v).h
    /\ hto_last' = HTOCall("add", k \in HTOKeySet(hto), HTO_contains(hto, k),
                           HTO_add(hto, k, v).ret)

HTORemove(k) ==
    /\ hto' = HTO_remove(hto, k).h
    /\ hto_last' = HTOCall("remove", k \in HTOKeySet(hto), HTO_contains(hto, k),
                           HTO_remove(hto, k).ret)

\* contains(k) and at(k): the table is read, _n_comparisons written.
HTOContains(k) ==
    /\ hto_last' = HTOCall("contains", k \in HTOKeySet(hto), HTO_contains(hto, k),
                           HTO_contains(hto, k))
    /\ UNCHANGED hto

HTOAt(k) ==
    /\ hto_last' = HTOCall("at", k \in HTOKeySet(hto), HTO_contains(hto, k),
                           HTO_at(hto, k).ret = "ok")
    /\ UNCHANGED hto

\* m_max_load_factor, set by the constructor and never written again.
HTO_max_load_factor == [num |-> 1, den |-> 1]

\* lf <= 0 || lf > m_max_load_factor
HTO_invalid_load_factor(lf) ==
    \/ lf.num <= 0
    \/ lf.num * HTO_max_load_factor.den > HTO_max_load_factor.num * lf.den

\* reserve(n): m_number_of_elements > m_table_size * m_load_factor
HTO_reserve(h, n) ==
    IF h.n * h.lf.den > h.size * h.lf.num
        THEN HTO_rehash(h, HTO_get_next_prime(n))
        ELSE h

\* load_factor(lf): the table after the call and whether the call returned
\* (TRUE) or threw HTO_InvalidLoadFactorException (FALSE).
HTO_load_factor(h, lf) ==
    IF HTO_invalid_load_factor(lf)
        THEN [h |-> h, ret |-> FALSE]
        ELSE [h |-> HTO_reserve([h EXCEPT !.lf = lf], h.n), ret |-> TRUE]

\* The load factors passed: quarters, below, inside and above (0, 1].
HTOLoadFactors == {[num |-> n, den |-> 4] : n \in {-1, 0, 2, 4, 5}}

HTOLoadFactor(lf) ==
    /\ hto' = HTO_load_factor(hto, lf).h
    /\ hto_last' = HTOCall("load_factor", FALSE, FALSE, HTO_load_factor(hto, lf).ret)

\* With load_factor the keys 1 .. HTOLoadMaxKey are passed, with one value.
HTOLoadKeys == 1..HTOLoadMaxKey

HTOLoadNext ==
    \/ \E k \in HTOLoadKeys : HTOAdd(k, 1) /\ UNCHANGED not_hto
    \/ \E k \in HTOLoadKeys : HTORemove(k) /\ UNCHANGED not_hto
    \/ \E lf \in HTOLoadFactors : HTOLoadFactor(lf) /\ UNCHANGED not_hto

\* Whether reserve(n) never returns: it runs rehash(get_next_prime(n)), and
\* the do-while of rehash has no exit once every slot of the new table is
\* OCCUPIED and an entry is still to be placed.
HTO_reserve_hangs(h, n) ==
    /\ h.n * h.lf.den > h.size * h.lf.num
    /\ Cardinality(HTOOccupied(h)) > HTO_get_next_prime(n)

\* reserve(n); ret is whether the call returned.
HTOReserve(n) ==
    /\ hto' = IF HTO_reserve_hangs(hto, n) THEN hto ELSE HTO_reserve(hto, n)
    /\ hto_last' = HTOCall("reserve", FALSE, FALSE, ~HTO_reserve_hangs(hto, n))

\* A call of reserve is running and will not return.
HTOHung == hto_last.op = "reserve" /\ ~hto_last.ret

HTOReserveKeys == 1..HTOReserveMaxKey

\* add, remove and reserve calls, one value.
HTOReserveNext ==
    \/ \E k \in HTOReserveKeys : ~HTOHung /\ HTOAdd(k, 1) /\ UNCHANGED not_hto
    \/ \E k \in HTOReserveKeys : ~HTOHung /\ HTORemove(k) /\ UNCHANGED not_hto
    \/ \E n \in 0..HTOReserveMaxRequest :
            ~HTOHung /\ HTOReserve(n) /\ UNCHANGED not_hto

\* The do-while of operator[] from probe i on: the slot of the key where it
\* is found, otherwise the last slot probed, with whether the key was found.
RECURSIVE HTO_subscript_probe(_, _, _)
HTO_subscript_probe(h, k, i) ==
    Bind(HTO_hash_code(h, k, i), LAMBDA index :
        IF h.table[index].state = "OCCUPIED" /\ h.table[index].key = k
            THEN [index |-> index, found |-> TRUE]
        ELSE IF h.table[index].state = "EMPTY"
            THEN [index |-> index, found |-> FALSE]
        ELSE IF i + 1 < h.size
            THEN HTO_subscript_probe(h, k, i + 1)
        ELSE [index |-> index, found |-> FALSE])

\* operator[](k): the table after the call and the slot whose value the
\* reference returned is bound to.  Where the key is not found add(k, Value())
\* is called and the reference is to slot index of the table add leaves.
HTO_subscript(h, k) ==
    Bind(HTO_subscript_probe(h, k, 0), LAMBDA r :
        [h |-> IF r.found THEN h ELSE HTO_add(h, k, 0).h, index |-> r.index])

\* t[k] = v, called on a table of at most HTOMaxTable slots.
HTOSubscriptAssign(k, v) ==
    /\ hto.size <= HTOMaxTable
    /\ hto' = [HTO_subscript(hto, k).h EXCEPT
                    !.table[HTO_subscript(hto, k).index].value = v]
    /\ hto_last' = HTOCall("subscript", k \in HTOKeySet(hto), HTO_contains(hto, k), TRUE)

\* The frame of the open-addressing table and its iterator.
not_hto_it == <<avl_vars, scenario_vars, rb_vars, rt_vars, htc_vars, dict_vars, htc_it>>

\* it = begin().
HTOBegin ==
    /\ hto_it' = [active |-> TRUE, index |-> HTOIt_begin(hto), out |-> <<>>]
    /\ hto_last' = HTOCall("begin", FALSE, FALSE, TRUE)
    /\ UNCHANGED hto

\* One turn of for (; it != end(); ++it): *it is read and ++it applied.  The
\* state of the slot read is kept with the pair.
HTOItNext ==
    /\ hto_it.active
    /\ hto_it.index # hto.size
    /\ hto_it' = [active |-> TRUE,
                  index |-> HTOIt_increment(hto, hto_it.index),
                  out |-> Append(hto_it.out,
                                 [index |-> hto_it.index,
                                  key |-> hto.table[hto_it.index].key,
                                  value |-> hto.table[hto_it.index].value,
                                  state |-> hto.table[hto_it.index].state])]
    /\ hto_last' = HTOCall("next", FALSE, FALSE, TRUE)
    /\ UNCHANGED hto

\* add and remove calls and iterations.
HTOItNextAll ==
    \/ \E k \in HTOKeys, v \in Values :
            HTOAdd(k, v) /\ hto_it' = HTOItIdle /\ UNCHANGED not_hto_it
    \/ \E k \in HTOKeys :
            HTORemove(k) /\ hto_it' = HTOItIdle /\ UNCHANGED not_hto_it
    \/ HTOBegin /\ UNCHANGED not_hto_it
    \/ HTOItNext /\ UNCHANGED not_hto_it

\* Subscript assignments, with add and remove calls, on one of the two hash
\* tables: the other table stays as constructed.
SubscriptNext ==
    \/ \E k \in HTCKeys, v \in Values :
            hto_last.op = "init" /\ HTCAdd(k, v) /\ UNCHANGED not_htc
    \/ \E k \in HTCKeys, v \in Values :
            hto_last.op = "init" /\ HTCSubscriptAssign(k, v) /\ UNCHANGED not_htc
    \/ \E k \in HTOKeys, v \in Values :
            htc_last.op = "init" /\ HTOAdd(k, v) /\ UNCHANGED not_hto
    \/ \E k \in HTOKeys :
            htc_last.op = "init" /\ HTORemove(k) /\ UNCHANGED not_hto
    \/ \E k \in HTOKeys, v \in Values :
            htc_last.op = "init" /\ HTOSubscriptAssign(k, v) /\ UNCHANGED not_hto

\* Updates and lookups of one of the four containers: the other three stay
\* as constructed.
LookupKeys == 1..LookupMaxKey

OnlyAVL == rb_last.op = "init" /\ htc_last.op = "init" /\ hto_last.op = "init"

OnlyRB == avl_last.op = "init" /\ htc_last.op = "init" /\ hto_last.op = "init"

OnlyHTC == avl_last.op = "init" /\ rb_last.op = "init" /\ hto_last.op = "init"

OnlyHTO == avl_last.op = "init" /\ rb_last.op = "init" /\ htc_last.op = "init"

LookupNext ==
    \/ \E k \in LookupKeys : OnlyAVL /\ AVLInsert(k, 1) /\ UNCHANGED not_avl
    \/ \E k \in LookupKeys : OnlyAVL /\ AVLErase(k) /\ UNCHANGED not_avl
    \/ \E k \in LookupKeys : OnlyAVL /\ AVLContains(k) /\ UNCHANGED not_avl
    \/ \E k \in LookupKeys : OnlyAVL /\ AVLAt(k) /\ UNCHANGED not_avl
    \/ \E k \in LookupKeys : OnlyRB /\ RBInsert(k, 1) /\ UNCHANGED not_rb
    \/ \E k \in LookupKeys : OnlyRB /\ RBRemove(k) /\ UNCHANGED not_rb
    \/ \E k \in LookupKeys : OnlyRB /\ RBContains(k) /\ UNCHANGED not_rb
    \/ \E k \in LookupKeys : OnlyRB /\ RBSearch(k) /\ UNCHANGED not_rb
    \/ \E k \in LookupKeys : OnlyHTC /\ HTCAdd(k, 1) /\ UNCHANGED not_htc
    \/ \E k \in LookupKeys : OnlyHTC /\ HTCContains(k) /\ UNCHANGED not_htc
    \/ \E k \in LookupKeys : OnlyHTC /\ HTCAt(k) /\ UNCHANGED not_htc
    \/ \E k \in LookupKeys : OnlyHTO /\ HTOAdd(k, 1) /\ UNCHANGED not_hto
    \/ \E k \in LookupKeys : OnlyHTO /\ HTORemove(k) /\ UNCHANGED not_hto
    \/ \E k \in LookupKeys : OnlyHTO /\ HTOContains(k) /\ UNCHANGED not_hto
    \/ \E k \in LookupKeys : OnlyHTO /\ HTOAt(k) /\ UNCHANGED not_hto

HTONextAll ==
    \/ \E k \in HTOKeys, v \in Values : HTOAdd(k, v) /\ UNCHANGED not_hto
    \/ \E k \in HTOKeys : HTORemove(k) /\ UNCHANGED not_hto

(***************************************************************************)
(* HashTableOA_Dictionary: hto is its hashTable, constructed with the       *)
(* default tableSize.  A word is modelled by its hash, hash_unicode(word).  *)
(***************************************************************************)
\* The slot whose value at(k) returns a reference to, -1 where at throws.
RECURSIVE HTO_at_index_probe(_, _, _)
HTO_at_index_probe(h, k, i) ==
    Bind(HTO_hash_code(h, k, i), LAMBDA index :
        IF h.table[index].state = "OCCUPIED" /\ h.table[index].key = k
            THEN index
        ELSE IF h.table[index].state = "EMPTY"
            THEN -1
        ELSE IF i + 1 < h.size
            THEN HTO_at_index_probe(h, k, i + 1)
        ELSE -1)

HTO_at_index(h, k) == HTO_at_index_probe(h, k, 0)

\* HashTableOA_Dictionary::insert(word): hashTable.at(word)++, and in the
\* handler of HTO_KeyNotFoundException hashTable.add(word, 1).
DictOA_insert(h, word) ==
    IF HTO_at_index(h, word) >= 0
        THEN [h EXCEPT !.table[HTO_at_index(h, word)].value = @ + 1]
        ELSE HTO_add(h, word, 1).h

\* The word whose hash is that of word 1 in the table the first rehash of the
\* default table makes.
DictFarWord == 1 + HTO_get_next_prime(2 * HTO_DefaultTableSize)

\* The words in the order of their first occurrence.
DictWord(i) == IF i = 1 THEN DictFarWord ELSE i - 1

DictSeen == {i \in 1..DictMaxWords : dict_count[i] > 0}

DictInit == dict_count = [i \in 1..DictMaxWords |-> 0]

\* insert(word) with the next new word or with one of the first words again.
DictOAInsert(i) ==
    /\ \/ i \in DictSeen /\ i <= DictMaxRepeated /\ dict_count[i] < DictMaxCount
       \/ i = Cardinality(DictSeen) + 1
    /\ dict_count' = [dict_count EXCEPT ![i] = @ + 1]
    /\ hto' = DictOA_insert(hto, DictWord(i))
    /\ hto_last' = HTOCall(IF HTO_at_index(hto, DictWord(i)) >= 0 THEN "at" ELSE "add",
                           DictWord(i) \in HTOKeySet(hto),
                           HTO_contains(hto, DictWord(i)), TRUE)

DictOANext ==
    \E i \in 1..DictMaxWords :
        DictOAInsert(i)
            /\ UNCHANGED <<avl_vars, scenario_vars, rb_vars, rt_vars, htc_vars, it_vars>>

(***************************************************************************)
(* Round trip: the same unique keys are inserted into both trees, then all *)
(* of them are removed, each phase in any order.                           *)
(***************************************************************************)
RTInit ==
    /\ rt_phase = "insert"
    /\ rt_inserted = {}
    /\ rt_removed = {}

RTInsert(k, v) ==
    /\ rt_phase = "insert"
    /\ k \notin rt_inserted
    /\ AVLInsert(k, v)
    /\ RBInsert(k, v)
    /\ rt_inserted' = rt_inserted \cup {k}
    /\ UNCHANGED <<rt_phase, rt_removed>>

RTStartRemove ==
    /\ rt_phase = "insert"
    /\ rt_inserted # {}
    /\ rt_phase' = "remove"
    /\ UNCHANGED <<avl_vars, rb_vars, rt_inserted, rt_removed>>

RTRemove(k) ==
    /\ rt_phase = "remove"
    /\ k \in rt_inserted \ rt_removed
    /\ AVLErase(k)
    /\ RBRemove(k)
    /\ rt_removed' = rt_removed \cup {k}
    /\ UNCHANGED <<rt_phase, rt_inserted>>

RTNextAll ==
    \/ \E k \in RTKeys, v \in Values : RTInsert(k, v) /\ UNCHANGED <<scenario_vars, htc_vars, hto_vars, dict_vars, it_vars>>
    \/ RTStartRemove /\ UNCHANGED <<scenario_vars, htc_vars, hto_vars, dict_vars, it_vars>>
    \/ \E k \in RTKeys : RTRemove(k) /\ UNCHANGED <<scenario_vars, htc_vars, hto_vars, dict_vars, it_vars>>

(***************************************************************************)
(* Specifications: one per container.  The containers a specification does *)
(* not exercise stay as constructed.                                       *)
(***************************************************************************)
InitAVL == AVLInit /\ RBInit /\ RTInit /\ DictInit /\ HTCDefault /\ HTODefault

InitRB == AVLInit /\ RBInit /\ RTInit /\ DictInit /\ HTCDefault /\ HTODefault

InitRT == AVLInit /\ RBInit /\ RTInit /\ DictInit /\ HTCDefault /\ HTODefault

InitHTC == AVLInit /\ RBInit /\ RTInit /\ DictInit /\ HTCInit /\ HTODefault

InitHTO == AVLInit /\ RBInit /\ RTInit /\ DictInit /\ HTCDefault /\ HTOInit

Init == AVLInit /\ RBInit /\ RTInit /\ DictInit /\ HTCInit /\ HTOInit

Next == AVLNextAll \/ RBNextAll \/ RTNextAll \/ HTCNextAll \/ HTONextAll

Spec == Init /\ [][Next]_vars

SpecAVLInsert == InitAVL /\ [][AVLInsertNext]_vars

SpecAVL == InitAVL /\ [][AVLNextAll]_vars

SpecAVLScenario == InitAVL /\ [][AVLScenarioNext]_vars

SpecRBUpdate == InitRB /\ [][RBUpdateNext]_vars

SpecRB == InitRB /\ [][RBNextAll]_vars

SpecRoundTrip == InitRT /\ [][RTNextAll]_vars

SpecHTC == InitHTC /\ [][HTCNextAll]_vars

InitHTCScenario == AVLInit /\ RBInit /\ RTInit /\ DictInit /\ HTCDefault /\ HTODefault

SpecHTCScenario == InitHTCScenario /\ [][HTCScenarioNext]_vars

SpecHTO == InitHTO /\ [][HTONextAll]_vars

SpecHTOLoad == InitHTO /\ [][HTOLoadNext]_vars

SpecDictOA == InitAVL /\ [][DictOANext]_vars

SpecAVLErase == InitAVL /\ [][AVLEraseNext]_vars

SpecAVLMap == InitAVL /\ [][AVLMapNext]_vars

SpecRBMap == InitRB /\ [][RBMapNext]_vars

SpecHTCIt == InitHTC /\ [][HTCItNextAll]_vars

SpecHTOIt == InitHTO /\ [][HTOItNextAll]_vars

SpecSubscript == Init /\ [][SubscriptNext]_vars

SpecRBClear == InitRB /\ [][RBClearNext]_vars

SpecHTOReserve == InitHTO /\ [][HTOReserveNext]_vars

SpecRotations == InitAVL /\ [][RotationsNext]_vars

SpecLookup == Init /\ [][LookupNext]_vars

SpecAVLFind == InitAVL /\ [][AVLFindNext]_vars

SpecAVLTreeIt == InitAVL /\ [][AVLTreeItNext]_vars

(***************************************************************************)
(* Claims about the AVL tree                                               *)
(***************************************************************************)
\* C1: after any sequence of insert calls every node of the AVL tree has
\* subtrees whose heights differ by at most 1, and the height stored in the node
\* is 1 + max of its children's heights (an absent child counting 0).
C1_InsertKeepsBalance ==
    \A n \in AVLNodes(avl_root) :
        /\ AbsDiff(AVLTrueHeight(n.left), AVLTrueHeight(n.right)) <= 1
        /\ n.height = 1 + Max(AVL_height(n.left), AVL_height(n.right))
        /\ n.height = AVLTrueHeight(n)

\* C1 witness: inserts have filled the tree and rebalancing kept it at height 3.
C1_Witness ==
    /\ avl_last.op = "insert"
    /\ Cardinality(AVLNodes(avl_root)) = AVLMaxKey
    /\ AVLTrueHeight(avl_root) = 3

IsPrefix(s, t) == Len(s) <= Len(t) /\ s = SubSeq(t, 1, Len(s))

\* C4: an iteration of the AVL tree from begin() yields the stored (key, value)
\* pairs in strictly ascending key order, each once: what has been yielded is a
\* prefix of the in-order listing, the iterator stands on the next pair, and it
\* equals end() (current = nullptr) exactly when every pair has been yielded;
\* on an empty tree begin() == end().
C4_IterationInOrder ==
    avl_it.active =>
        LET pairs == AVLPairs(avl_root)
            out   == avl_it.out
        IN  /\ IsPrefix(out, pairs)
            /\ \A i, j \in 1..Len(out) : i < j => out[i][1] < out[j][1]
            /\ (avl_it.current = NULL) <=> (Len(out) = Len(pairs))
            /\ avl_it.current # NULL =>
                    <<avl_it.current.key, avl_it.current.value>> = pairs[Len(out) + 1]
            /\ avl_root = NULL => avl_it.current = NULL

\* C4 witness: an iteration over a tree of at least five pairs has reached end().
C4_Witness ==
    /\ avl_it.active
    /\ avl_it.current = NULL
    /\ Len(avl_it.out) >= 5
    /\ avl_size = Len(avl_it.out)

\* C7: an insert(k, v) of the AVL tree with k already stored changes neither
\* size() nor the tree: the same keys, the same values (the first value of k is
\* kept) and the same shape.
C7_InsertDuplicateKeepsTree ==
    [][(avl_last'.op = "insert" /\ avl_last'.hit)
            => (avl_root' = avl_root /\ avl_size' = avl_size)]_vars

\* C7 witness: an insert of a stored key with a value other than the stored one.
C7_Witness ==
    /\ avl_last.op = "insert"
    /\ avl_last.hit
    /\ avl_size >= 3
    /\ AVL_findNode(avl_root, avl_last.key) # NULL
    /\ AVL_findNode(avl_root, avl_last.key).value # avl_last.value

(***************************************************************************)
(* Claims about the Red-Black tree                                         *)
(***************************************************************************)
\* C2: after any sequence of insert and remove calls the root of the Red-Black
\* tree is BLACK and no RED node has a RED child.
C2_RootBlackNoRedRed ==
    /\ rb.node[rb.root].color = "BLACK"
    /\ \A i \in RBLive(rb) :
            rb.node[i].color = "RED" =>
                /\ rb.node[rb.node[i].left].color # "RED"
                /\ rb.node[rb.node[i].right].color # "RED"

\* C2 witness: a remove has unlinked a node and left a tree of five nodes in
\* which a RED node has two children.
C2_Witness ==
    /\ rb_last.op = "remove"
    /\ rb_last.hit
    /\ rb.size = 5
    /\ \E i \in RBLive(rb) :
            /\ rb.node[i].color = "RED"
            /\ rb.node[i].left # RBNIL
            /\ rb.node[i].right # RBNIL

\* C3: after any sequence of insert and remove calls every path from the root
\* of the Red-Black tree to a sentinel leaf passes through the same number of
\* BLACK nodes.
C3_EqualBlackHeight == Cardinality(RBBlackCounts(rb, rb.root)) = 1

\* C3 witness: a remove has unlinked a node and every path of the remaining
\* tree holds two BLACK nodes.
C3_Witness ==
    /\ rb_last.op = "remove"
    /\ rb_last.hit
    /\ rb.size >= 3
    /\ RBBlackCounts(rb, rb.root) = {2}

\* C5: an iteration of the Red-Black tree from begin() yields the stored
\* (key, value) pairs in strictly ascending key order, each once: what has been
\* yielded is a prefix of the in-order listing, the iterator stands on the next
\* pair, and it equals end() (current = _NIL) exactly when every pair has been
\* yielded.
C5_RBIterationInOrder ==
    rb_it.active =>
        LET pairs == RBPairs(rb)
            out   == rb_it.out
        IN  /\ IsPrefix(out, pairs)
            /\ \A i, j \in 1..Len(out) : i < j => out[i][1] < out[j][1]
            /\ (rb_it.current = RBNIL) <=> (Len(out) = Len(pairs))
            /\ rb_it.current # RBNIL =>
                    /\ rb_it.current \in RBLive(rb)
                    /\ <<rb.node[rb_it.current].key, rb.node[rb_it.current].value>>
                            = pairs[Len(out) + 1]

\* C5 witness: an iteration over a tree of at least five pairs, built with a
\* remove among the calls, has reached end().
C5_Witness ==
    /\ rb_it.active
    /\ rb_it.current = RBNIL
    /\ Len(rb_it.out) >= 5
    /\ rb.size = Len(rb_it.out)

\* C8: an insert(k, v) of the Red-Black tree with k already stored raises
\* AlreadyExists and leaves the tree as it was: the same keys, values, links,
\* colours and size().
C8_RBInsertDuplicateRaises ==
    [][(rb_last'.op = "insert" /\ rb_last'.hit)
            => (rb_last'.ret = "AlreadyExists" /\ rb' = rb)]_vars

\* C8 witness: an insert of a stored key into a tree of at least three nodes
\* has raised AlreadyExists.
C8_Witness ==
    /\ rb_last.op = "insert"
    /\ rb_last.hit
    /\ rb_last.ret = "AlreadyExists"
    /\ rb.size >= 3

(***************************************************************************)
(* Claims about the round trip                                             *)
(***************************************************************************)
\* C6: when N unique keys have been inserted into the AVL tree and into the
\* Red-Black tree, in any order, and all of them have then been removed, in any
\* order, size() is 0 and contains(k) is false for every inserted key k, in
\* both trees.
C6_RoundTripEmpties ==
    (rt_phase = "remove" /\ rt_removed = rt_inserted) =>
        /\ avl_size = 0
        /\ rb.size = 0
        /\ \A k \in rt_inserted : ~AVL_contains(k) /\ ~RB_contains(rb, k)

\* C6 witness: every key of the model has been inserted and removed again.
C6_Witness ==
    /\ rt_phase = "remove"
    /\ rt_inserted = RTKeys
    /\ rt_removed = RTKeys

(***************************************************************************)
(* Claims about the hash tables                                            *)
(***************************************************************************)
\* C9: an add(k, v) of the chained hash table with k already stored raises
\* AlreadyExists and leaves the table as it was before the call: the same
\* entries, the same size(), the same table size and the same lists.
C9_AddDuplicateKeepsTable ==
    [][(htc_last'.op = "add" /\ htc_last'.hit)
            => (htc_last'.ret = "AlreadyExists" /\ htc' = htc)]_vars

\* C10: an add(k, v) of the open-addressing table with k present (contains(k)
\* holds), tombstones or not, returns false, leaves every stored pair as it
\* was and leaves size() unchanged.
C10_AddPresentReturnsFalse ==
    [][(hto_last'.op = "add" /\ hto_last'.hit /\ hto_last'.found)
            => /\ hto_last'.ret = FALSE
               /\ HTOPairs(hto') = HTOPairs(hto)
               /\ hto'.n = hto.n]_vars

\* C11: after an add of the open-addressing table that rehashes (the table
\* size changes), every key that contains found before the call is still found
\* by contains, and at returns the value it returned before.
C11_RehashKeepsKeysFound ==
    [][\A k \in HTOKeys, v \in Values :
            (HTOAdd(k, v) /\ hto'.size # hto.size)
                => \A b \in HTOKeys :
                        HTO_contains(hto, b)
                            => /\ HTO_contains(hto', b)
                               /\ HTO_at(hto', b) = HTO_at(hto, b)]_vars

\* C12: after an add of the chained table that rehashes, every key that was
\* stored before the call is still found by contains, and at returns the value
\* it returned before.
C12_ChainedRehashKeepsKeysFound ==
    [][(htc_last'.op = "add" /\ htc_last'.rehashed)
            => \A b \in HTCKeySet(htc) :
                    /\ HTC_contains(htc', b)
                    /\ HTC_at(htc', b).ret = "ok"
                    /\ HTC_at(htc', b) = HTC_at(htc, b)]_vars

\* C12 witness: the last call was an add that rehashed a table of at least
\* three keys, one of which changed its list, and stored a new key.
C12_Witness ==
    /\ htc_last.op = "add"
    /\ htc_last.rehashed
    /\ htc_last.ret = "ok"
    /\ htc.n >= 4
    /\ \E b \in HTCKeySet(htc) :
            HTC_hash_code(htc, b) # HTC_hashing(b) % (htc.size \div 2)

\* C13: the table size of the chained table is a prime number in every state:
\* after construction and after every rehash.
C13_TableSizeIsPrime ==
    /\ htc.size >= 2
    /\ ~HTC_has_divisor(htc.size, 2)

\* C14: in the open-addressing table no key is held by more than one OCCUPIED
\* slot.
C14_OneSlotPerKey ==
    \A k \in HTOKeys :
        Cardinality({i \in HTOOccupied(hto) : hto.table[i].key = k}) <= 1

\* C15: remove(k) of the open-addressing table returns true exactly when
\* contains(k) held before the call, and contains(k) is false after it.
C15_RemoveMakesKeyAbsent ==
    [][\A k \in HTOKeys :
            HTORemove(k)
                => /\ hto_last'.ret = hto_last'.found
                   /\ ~HTO_contains(hto', k)]_vars

\* C16: a remove(a) of the open-addressing table changes neither contains(b)
\* nor at(b) for any other key b: a key found before the call is found after
\* it, with the same value.
C16_RemoveKeepsOtherKeys ==
    [][\A a \in HTOKeys :
            HTORemove(a)
                => \A b \in HTOKeys \ {a} :
                        /\ HTO_contains(hto', b) = HTO_contains(hto, b)
                        /\ HTO_at(hto', b) = HTO_at(hto, b)]_vars

\* C16 witness: the last call was a remove that returned true, its tombstone
\* is the only one of the table, and it is the first slot probed for a key that
\* is still found, further along the probe sequence.
C16_Witness ==
    /\ hto_last.op = "remove"
    /\ hto_last.ret = TRUE
    /\ Cardinality({i \in DOMAIN hto.table : hto.table[i].state = "DELETED"}) = 1
    /\ \E b \in HTOKeys :
            /\ hto.table[HTO_hash_code(hto, b, 0)].state = "DELETED"
            /\ hto.table[HTO_hash_code(hto, b, 0)].key # b
            /\ HTO_contains(hto, b)
            /\ HTO_at(hto, b).ret = "ok"

\* C17: when 15 unique keys have been added to a chained table constructed
\* with size 19 and load factor 0.75, rehash has run exactly once and the table
\* size is the next prime >= 38.
C17_FifteenKeysOneRehash ==
    (htc.n = 15 /\ htc_last.op = "add")
        => /\ htc_rehashes = 1
           /\ htc.size = HTC_get_next_prime(2 * HTC_DefaultTableSize)

\* C18: when the keys 10, 20, 30, 40, 50, 25 have been inserted in that order
\* into an empty AVL tree, the root is 30, its left child is 20 with the
\* children 10 and 25, its right child is 40 with the single child 50, on the
\* right, and the height of the tree is 3.
C18_ScenarioTree ==
    (avl_order = <<10, 20, 30, 40, 50, 25>>)
        => /\ avl_root.key = 30
           /\ avl_root.left.key = 20
           /\ avl_root.left.left.key = 10
           /\ avl_root.left.right.key = 25
           /\ avl_root.right.key = 40
           /\ avl_root.right.left = NULL
           /\ avl_root.right.right.key = 50
           /\ \A leaf \in {avl_root.left.left, avl_root.left.right,
                             avl_root.right.right} :
                    leaf.left = NULL /\ leaf.right = NULL
           /\ AVL_tree_height = 3
           /\ AVLTrueHeight(avl_root) = 3

\* C18 witness: the six keys have been inserted in the order of the scenario.
C18_Witness ==
    /\ avl_order = <<10, 20, 30, 40, 50, 25>>
    /\ avl_size = 6
    /\ avl_last.op = "insert"
    /\ avl_last.key = 25

\* C19: every remove(k) of the chained table raises KeyNotFound; when k is
\* stored the call erases exactly the entry of k, decrements size() by one and
\* leaves every other entry as it was, and when k is not stored it changes
\* nothing.
C19_RemoveAlwaysRaises ==
    [][\A k \in HTCKeys :
            HTCRemove(k)
                => /\ htc_last'.ret = "KeyNotFound"
                   /\ HTC_contains(htc, k)
                        => /\ HTCPairs(htc') = {par \in HTCPairs(htc) : par[1] # k}
                           /\ htc'.n = htc.n - 1
                           /\ htc'.size = htc.size
                   /\ ~HTC_contains(htc, k) => htc' = htc]_vars

\* C20: a call of the chained table that signals KeyNotFound (at of a key that
\* is not stored, remove) leaves the table in its state before the call: the
\* same entries, the same size() and the same lists.
C20_KeyNotFoundKeepsTable ==
    [][(htc_last'.op \in {"at", "remove"} /\ htc_last'.ret = "KeyNotFound")
            => htc' = htc]_vars

\* C21: load_factor(lf) of the open-addressing table raises InvalidLoadFactor
\* exactly when lf <= 0 or lf > max_load_factor, and then leaves the table as
\* it was; for every other lf the threshold becomes lf and no entry is lost:
\* the stored pairs are the same and every key found before is found after,
\* with its value.
C21_LoadFactorKeepsEntries ==
    [][\A lf \in HTOLoadFactors :
            HTOLoadFactor(lf)
                => IF lf.num <= 0 \/ lf.num > lf.den
                    THEN hto_last'.ret = FALSE /\ hto' = hto
                    ELSE /\ hto_last'.ret = TRUE
                         /\ hto'.lf = lf
                         /\ HTOPairs(hto') = HTOPairs(hto)
                         /\ hto'.n = hto.n
                         /\ \A k \in HTOLoadKeys :
                                HTO_contains(hto, k)
                                    => /\ HTO_contains(hto', k)
                                       /\ HTO_at(hto', k) = HTO_at(hto, k)]_vars

\* C22: the 'table full' outcome of add of the open-addressing table is
\* unreachable: an add(k, v) with k not stored and not found stores the pair
\* and returns true, whatever valid load factor has been set.
C22_AddNeverFindsTableFull ==
    [][(hto_last'.op = "add" /\ ~hto_last'.hit /\ ~hto_last'.found)
            => hto_last'.ret = TRUE]_vars

C26_RemoveOfAbsentKeyRaises ==
    [][\A k \in RBKeys :
            (RBRemove(k) /\ ~RB_contains(rb, k)) => rb_last'.ret # "ok"]_vars

\* C25: on an element that is not the minimum, operator-- of the AVL iterator
\* moves to the in-order predecessor, so that ++ followed by -- returns to the
\* element ++ left.
C25_DecrementFindsPredecessor ==
    [][(AVLTreeItDecrement
            /\ \E k \in AVLKeySet(avl_root) : k < avl_it.current.key)
        => /\ avl_it'.current # NULL
           /\ \A k \in AVLKeySet(avl_root) :
                ~(avl_it'.current.key < k /\ k < avl_it.current.key)
           /\ avl_it'.current.key < avl_it.current.key
           /\ (avl_last.op = "increment"
                    => avl_it'.current.key = avl_last.key)]_vars

\* C27: after any interleaved sequence of insert and erase every node of the
\* AVL tree has a balance factor in {-1, 0, 1} and a stored height equal to
\* 1 + max of its children's heights; the fix-up after a deletion restores
\* both, on the path of the successor's removal as well.
C27_EraseKeepsBalance ==
    \A n \in AVLNodes(avl_root) :
        /\ AVL_balance(n) \in {-1, 0, 1}
        /\ AVL_height(n) = 1 + Max(AVL_height(n.left), AVL_height(n.right))
        /\ AVL_height(n) = AVLTrueHeight(n)

\* An erase has removed a successor and _fixup_deletion has rotated a node on
\* the way back up from it.
C27_Witness ==
    /\ avl_last.op = "erase"
    /\ avl_last.hit
    /\ avl_erase.successor >= 1

\* The map an AVL tree stands for: the (key, value) pairs of its nodes.
AVLMapOf(node) == {<<n.key, n.value>> : n \in AVLNodes(node)}

\* What contains(k), at(k) and size() answer is what a map m answers.
AVLAnswersAs(node, size, m) ==
    /\ size = Cardinality(m)
    /\ size = Cardinality({p[1] : p \in m})
    /\ \A k \in AVLMapKeys :
        /\ (AVL_findNode(node, k) # NULL) <=> (\E p \in m : p[1] = k)
        /\ \A p \in m : p[1] = k => AVL_at(node, k) = [ret |-> "ok", value |-> p[2]]
        /\ (\A p \in m : p[1] # k)
                => AVL_at(node, k).ret = "AVL_ValueNotFoundException"

\* C28: the AVL tree is a map.  After each insert and erase, contains, at and
\* size() answer as a reference map does on which insert(k, v) keeps the first
\* value of a key already there and erase of an absent key changes nothing;
\* erase(k) removes k only, the other keys keep their values, also when the
\* successor's key and value are copied into the node of k.
C28_TreeIsAMap ==
    [][/\ \A k \in AVLMapKeys, v \in Values :
            AVLInsert(k, v)
                => AVLAnswersAs(avl_root', avl_size',
                        IF \E p \in AVLMapOf(avl_root) : p[1] = k
                            THEN AVLMapOf(avl_root)
                            ELSE AVLMapOf(avl_root) \cup {<<k, v>>})
       /\ \A k \in AVLMapKeys :
            AVLErase(k)
                => AVLAnswersAs(avl_root', avl_size',
                        {p \in AVLMapOf(avl_root) : p[1] # k})]_vars

\* An erase has copied the successor into the node of its key, in a tree that
\* holds two different values.
C28_Witness ==
    /\ avl_last.op = "erase"
    /\ avl_erase.copied
    /\ avl_size >= 3
    /\ \E p, q \in AVLMapOf(avl_root) : p[2] # q[2]

\* The map a Red-Black tree stands for: the (key, value) pairs of the nodes
\* linked from its root.
RBMapOf(t) == {RBPairs(t)[j] : j \in 1..Len(RBPairs(t))}

\* search finds every pair of the map m with its value, size() is the number
\* of pairs, and the in-order listing of the tree ascends strictly.
RBAnswersAs(t, m) ==
    /\ RBMapOf(t) = m
    /\ t.size = Cardinality(m)
    /\ \A p \in m : RB_search_value(t, p[1]) = [ret |-> "ok", value |-> p[2]]
    /\ \A k \in RBMapKeys :
        (\A p \in m : p[1] # k) => RB_search_value(t, k).ret = "RB_ValueNotFoundException"
    /\ \A i, j \in 1..Len(RBPairs(t)) : i < j => RBPairs(t)[i][1] < RBPairs(t)[j][1]

\* C29: the Red-Black tree is a map under insert of absent keys and remove.
\* remove(k) with k present deletes the entry of k and no other, size()
\* drops by one, and every other key is still found by search with its value
\* and in BST order, also when the successor is copied into the node of k.
C29_RemoveDeletesOneEntry ==
    [][/\ \A k \in RBMapKeys, v \in Values :
            (rb_last'.op = "insert" /\ ~RB_contains(rb, k) /\ RBInsert(k, v))
                => RBAnswersAs(rb', RBMapOf(rb) \cup {<<k, v>>})
       /\ \A k \in RBMapKeys :
            (rb_last'.op = "remove" /\ RB_contains(rb, k) /\ RBRemove(k))
                => /\ RBAnswersAs(rb', {p \in RBMapOf(rb) : p[1] # k})
                   /\ rb'.size = rb.size - 1]_vars

\* A remove has copied the successor into the node of its key, in a tree that
\* holds two different values.
C29_Witness ==
    /\ rb_last.op = "remove"
    /\ rb_copied
    /\ rb.size >= 3
    /\ \E p, q \in RBMapOf(rb) : p[2] # q[2]

\* The keys whose probe sequences are examined: the keys of the table and
\* -1, the int whose hash is the largest size_t.
HTOProbeKeys == HTOKeys \cup {-1}

\* C30: in every reachable state of the open-addressing table the table size
\* is a prime and hash2(k) lies in 1 .. m_table_size - 1, so that for every
\* key the probe indices hash_code(k, i), i = 0 .. m_table_size - 1, are
\* pairwise distinct and cover every slot.
C30_ProbesCoverTable ==
    /\ hto.size >= 2
    /\ \A d \in 2..(hto.size - 1) : hto.size % d # 0
    /\ \A k \in HTOProbeKeys :
        /\ HTO_hash2(hto, k) \in 1..(hto.size - 1)
        /\ \A i, j \in 0..(hto.size - 1) :
                i # j => HTO_hash_code(hto, k, i) # HTO_hash_code(hto, k, j)
        /\ {HTO_hash_code(hto, k, i) : i \in 0..(hto.size - 1)} = 0..(hto.size - 1)

\* C31: the size of a hash table never shrinks: every rehash, whether add,
\* reserve or load_factor asks for it, installs a table larger than the
\* current one.
C31_TableSizeNeverShrinks ==
    [][hto'.size >= hto.size]_vars

\* The pairs of a chained table, buckets in ascending index order and the
\* pairs of one bucket in list order.
RECURSIVE HTCListing(_, _)
HTCListing(h, i) ==
    IF i < h.size THEN h.table[i] \o HTCListing(h, i + 1) ELSE <<>>

\* C32: an iteration of the chained table from begin() yields every stored
\* pair once, buckets in ascending index order and the pairs of a bucket in
\* insertion order: what has been yielded is a prefix of that listing, the
\* iteration goes on, and the iterator equals end() (m_index = m_table_size)
\* exactly when every pair has been yielded.
C32_ChainedIterationInOrder ==
    htc_it.active =>
        /\ htc_it.alive
        /\ IsPrefix(htc_it.out, HTCListing(htc, 0))
        /\ (htc_it.index = htc.size) <=> (htc_it.out = HTCListing(htc, 0))

\* C33: while an iterator of the chained table is advanced from begin() to
\* end(), the bucket array is never indexed at m_table_size or beyond.
C33_IteratorStaysInBounds ==
    htc_it.active => ~htc_it.past

\* The OCCUPIED slots of an open-addressing table from slot i on, in ascending
\* index order, as the iteration reports them.
RECURSIVE HTOListing(_, _)
HTOListing(h, i) ==
    IF i < h.size
        THEN (IF h.table[i].state = "OCCUPIED"
                THEN <<[index |-> i, key |-> h.table[i].key,
                        value |-> h.table[i].value, state |-> "OCCUPIED"]>>
                ELSE <<>>) \o HTOListing(h, i + 1)
        ELSE <<>>

\* C34: an iteration of the open-addressing table from begin() yields the
\* OCCUPIED slots, each once, in ascending slot index, and no EMPTY or DELETED
\* slot; the iterator equals end() exactly when all have been yielded, and on
\* a table without an OCCUPIED slot begin() = end().
C34_OpenIterationYieldsOccupied ==
    hto_it.active =>
        /\ IsPrefix(hto_it.out, HTOListing(hto, 0))
        /\ \A j \in 1..Len(hto_it.out) : hto_it.out[j].state = "OCCUPIED"
        /\ \A i, j \in 1..Len(hto_it.out) :
                i < j => hto_it.out[i].index < hto_it.out[j].index
        /\ (hto_it.index = hto.size) <=> (Len(hto_it.out) = Len(HTOListing(hto, 0)))
        /\ hto_it.index <= hto.size
        /\ HTOOccupied(hto) = {} => hto_it.index = hto.size

\* An iteration has reached end() on a table with a DELETED slot before an
\* OCCUPIED one, after yielding two entries.
C34_Witness ==
    /\ hto_it.active
    /\ hto_it.index = hto.size
    /\ Len(hto_it.out) >= 2
    /\ \E i, j \in DOMAIN hto.table :
            i < j /\ hto.table[i].state = "DELETED" /\ hto.table[j].state = "OCCUPIED"

\* C35: operator[](k) on a key that is not stored inserts k and returns a
\* reference to the value stored under k: after t[k] = v, at(k) returns v.
\* Both hash tables, also when the insertion runs rehash or reuses a DELETED
\* slot.
C35_SubscriptRefersToValueOfKey ==
    [][/\ \A k \in HTOKeys, v \in Values :
            (k \notin HTOKeySet(hto) /\ HTOSubscriptAssign(k, v))
                => HTO_at(hto', k) = [ret |-> "ok", value |-> v]
       /\ \A k \in HTCKeys, v \in Values :
            (k \notin HTCKeySet(htc) /\ HTCSubscriptAssign(k, v))
                => htc'.alive /\ HTC_at(htc', k) = [ret |-> "ok", value |-> v]]_vars

\* C36: clear() empties the container: when clear() returns size() is 0,
\* contains(k) is false for every key and begin() is end().  Stated for the
\* Red-Black tree.
C36_ClearEmpties ==
    rb_last.op = "clear" =>
        /\ rb.size = 0
        /\ \A k \in RBMapKeys : ~RB_contains(rb, k)
        /\ RBIt_begin(rb) = RBNIL

\* C37: reserve(n) returns, for every n >= 0 and every table, and when it has
\* returned every key stored is found by contains.  Stated for the
\* open-addressing table.
C37_ReserveReturnsAndKeepsKeys ==
    hto_last.op = "reserve" =>
        /\ hto_last.ret
        /\ \A k \in HTOKeySet(hto) : HTO_contains(hto, k)

\* C38: one insert increases rotations() by at most 2, in the AVL tree and in
\* the Red-Black tree.
C38_InsertRotatesAtMostTwice ==
    [][/\ \A k \in RotKeys :
            (avl_last'.op = "insert" /\ avl_last'.key = k /\ AVLInsert(k, 1))
                => AVL_insert_rotations(avl_root, k, 1) <= 2
       /\ \A k \in RotKeys :
            (rb_last'.op = "insert" /\ rb' # rb /\ RBInsert(k, 1))
                => RB_insert_rotations(rb, k, 1) <= 2]_vars

\* An insert into the AVL tree has made a double rotation, which is the only
\* way the node it created can have a child when insert returns.
C38_Witness ==
    /\ avl_last.op = "insert"
    /\ ~avl_last.hit
    /\ AVL_findNode(avl_root, avl_last.key).left # NULL

\* The state of the four containers without the records of the last call.
containers == <<avl_root, avl_size, rb, htc, hto>>

AVLFindVisited ==
    avl_it.out \o (IF avl_it.current # NULL
                     THEN <<(<<avl_it.current.key, avl_it.current.value>>)>>
                     ELSE <<>>)

\* C40: the iterator find(k) returns stands on the entry of k, ++ moves it to
\* the in-order successor, or to end() from the greatest key, and the
\* iteration from find(k) visits k and then the keys greater than k in
\* ascending order, each once.
C40_FindIteratesSuccessors ==
    avl_it.active =>
        /\ IsPrefix(AVLFindVisited,
                    SelectSeq(AVLPairs(avl_root),
                              LAMBDA par : par[1] >= AVLFindVisited[1][1]))
        /\ avl_it.current = NULL =>
                AVLFindVisited = SelectSeq(AVLPairs(avl_root),
                                           LAMBDA par : par[1] >= AVLFindVisited[1][1])

=============================================================================
